---- MODULE Spec2Model ----
(***************************************************************************)
(* Transport / Producer / Consumer lifecycle of mediasoup-client with its  *)
(* command serialisation, as one state machine.                            *)
(*                                                                         *)
(* Granularity.  JavaScript runs one synchronous block at a time; a chain   *)
(* of promise reactions that awaits nothing external is taken as one step.  *)
(* A step of the model therefore ends where the code awaits the browser     *)
(* (RTCPeerConnection), the application's callback/errback pair of an       *)
(* emitted notification, or the CommandQueue.  Listeners of notifications   *)
(* are observers: they do not call back into the library synchronously.     *)
(*                                                                         *)
(* The router assigns identifiers; a producer id is given once.  The        *)
(* device can send audio; whether it can send video varies.  Local tracks   *)
(* are live and enabled when the application first hands them over, and     *)
(* only the library stops them.                                             *)
(*                                                                         *)
(* Handlers.  SendHandler / RecvHandler of Chrome55 ask the Transport for    *)
(* the transport setup with '@connect'.  FakeHandler asks with              *)
(* '@localparameters', which the Transport does not listen to: it is        *)
(* answered, or not, by a listener set on transport.handler.  What the      *)
(* browser and the application answer is chosen freely.                     *)
(*                                                                         *)
(* Specifications.  Spec: a Transport created by a loaded Device and the     *)
(* operations on it.  ConnectionSpec: Spec with getStats() and the           *)
(* Handler's notifications of the connection state.  EndedTrackSpec: Spec    *)
(* when one of the application's tracks has ended beforehand.  DeviceSpec:   *)
(* the Device up to the creation of a Transport.                             *)
(***************************************************************************)
EXTENDS Integers, Sequences, FiniteSets, TLC

\* ----------------------------------------------------------------------
\* Bounds of the model
\* ----------------------------------------------------------------------
\* Number of API calls (send, receive, restartIce, updateIceServers,
\* replaceTrack) the application makes on the transport.
MaxCalls == 2
\* Local media tracks the application owns.
NTracks == 2
\* Identifiers the router can assign to producers / consumers.
NIds == 2
\* Number of calls the application makes on a Device.
MaxDeviceCalls == 3
\* Number of send() / receive() calls made on the second Transport.
MaxPeerCalls == 1
\* Number of '@connectionstatechange' reports a Handler makes.
MaxStateReports == 3

Tracks == 1..NTracks
RouterIds == 1..NIds
NoTrack == 0
NoId == 0

Kinds == {"audio", "video"}
\* Track 1 is audio, track 2 is video, and so on alternately.
TrackKind(t) == IF t % 2 = 1 THEN "audio" ELSE "video"

Directions == {"send", "recv"}
\* The Handler classes of the repository a Transport can be built with.
Handlers == {"Chrome55", "FakeHandler"}

VARIABLES
  direction,       \* Transport._direction
  handler,         \* which Handler class Transport._handler instantiates
  canSendByKind,   \* Transport._canSendByKind
  closed,          \* Transport._closed
  producers,       \* Transport._producers : router id -> Producer object
  consumers,       \* Transport._consumers : router id -> Consumer object
  prod,            \* the Producer objects created so far
  cons,            \* the Consumer objects created so far
  tracks,          \* the local MediaStreamTracks: readyState and enabled
  queue,           \* CommandQueue: tickets pushed and not yet started
  queueClosed,     \* CommandQueue closed flag
  running,         \* CommandQueue: ticket of the running task, 0 when idle
  ncalls,          \* number of API calls the application has made
  rejected,        \* the API call the last step rejected before the queue, if any
  calls,           \* every step pushed on the CommandQueue, by ticket
  started,         \* tickets in the order their tasks were started
  hcalls,          \* Handler negotiation calls in flight
  stream,          \* SendHandler._stream : tracks added to the local stream
  transportReady,  \* Handler._transportReady
  receiverInfos,   \* RecvHandler._receiverInfos : ids registered
  connectionState, \* Transport._connectionState
  connects,        \* times 'connect' was raised to the application
  handlerCloses,   \* times Handler.close() was called
  devLoaded,       \* Device: loaded flag
  devCaps,         \* Device: cached capabilities, the kinds it can send / receive
  devLoads,        \* Device: every load() call made, in call order
  devCalls,        \* Device: number of calls the application has made
  devResult,       \* Device: outcome of the last canSend / canReceive / createTransport
  peerDirection,   \* second Transport of the Device: _direction
  peerClosed,      \* second Transport: _closed
  peerQueue,       \* second Transport: tickets pushed on its CommandQueue, not started
  peerRunning,     \* second Transport: ticket of its running task, 0 when idle
  peerCalls,       \* second Transport: every step pushed on its CommandQueue
  peerProducers,   \* second Transport: keys of _producers
  peerConsumers,   \* second Transport: keys of _consumers
  peerProd,        \* the Producer objects the second Transport created
  peerCons,        \* the Consumer objects the second Transport created
  simOption,       \* send(): the simulcast option the application passed
  simKind,         \* send(): track.kind
  simDefault,      \* contents of SIMULCAST_DEFAULT
  simPassed,       \* what the send task handed to Handler.send as simulcast
  simHeld,         \* the value the Handler holds, as it is now
  stateReports,    \* times the Handler emitted '@connectionstatechange'
  stateEvents,     \* times 'connectionstatechange' was raised to the application
  lastStateEvent   \* the state the last 'connectionstatechange' carried

vars == <<direction, handler, canSendByKind, closed, producers, consumers,
          prod, cons, tracks, queue, queueClosed, running, ncalls, rejected,
          calls, started, hcalls, stream, transportReady, receiverInfos,
          connectionState, connects, handlerCloses,
          devLoaded, devCaps, devLoads, devCalls, devResult,
          peerDirection, peerClosed, peerQueue, peerRunning, peerCalls,
          peerProducers, peerConsumers, peerProd, peerCons,
          simOption, simKind, simDefault, simPassed, simHeld,
          stateReports, stateEvents, lastStateEvent>>

config == <<direction, handler, canSendByKind>>
\* Everything but the report of the last step's outright rejection.
objects == <<direction, handler, canSendByKind, closed, producers, consumers,
             prod, cons, tracks, queue, queueClosed, running, ncalls, calls,
             started, hcalls, stream, transportReady, receiverInfos,
             connectionState, connects, handlerCloses,
             devLoaded, devCaps, devLoads, devCalls, devResult,
             peerDirection, peerClosed, peerQueue, peerRunning, peerCalls,
             peerProducers, peerConsumers, peerProd, peerCons,
             simOption, simKind, simDefault, simPassed, simHeld,
             stateReports, stateEvents, lastStateEvent>>
handlerState == <<stream, transportReady, receiverInfos>>
\* What the Transport reports of its connection and of its Handler's setup.
connection == <<connectionState, connects, handlerCloses>>
\* The Device the Transport was created by.
device == <<devLoaded, devCaps, devLoads, devCalls, devResult>>
\* A second Transport created by the same Device, with its Producers,
\* Consumers and queue.
peer == <<peerDirection, peerClosed, peerQueue, peerRunning, peerCalls,
          peerProducers, peerConsumers, peerProd, peerCons>>
\* One send() call seen from its simulcast option.
simulcastCall == <<simOption, simKind, simDefault, simPassed, simHeld>>
\* The 'connectionstatechange' notifications the application has got.
notifications == <<stateReports, stateEvents, lastStateEvent>>
\* The state of a Transport, its Producers, Consumers, queue and Handler.
transport == <<closed, producers, consumers, prod, cons, tracks, queue,
               queueClosed, running, ncalls, rejected, calls, started, hcalls,
               stream, transportReady, receiverInfos, connectionState,
               connects, handlerCloses, stateReports, stateEvents, lastStateEvent>>

\* ----------------------------------------------------------------------
\* Helpers
\* ----------------------------------------------------------------------
Range(s) == {s[i] : i \in DOMAIN s}

\* MediaStreamTrack.stop()
StopTrack(trs, t) == [trs EXCEPT ![t].readyState = "ended"]

StopTracks(trs, ts) ==
  [t \in Tracks |-> IF t \in ts THEN [trs[t] EXCEPT !.readyState = "ended"]
                    ELSE trs[t]]

\* Map.set(id, obj) and Map.delete(id)
MapSet(m, id, obj) ==
  [i \in DOMAIN m \cup {id} |-> IF i = id THEN obj ELSE m[i]]

\* A Map.delete() that removes nothing.
MapDeleteNothing(m, id) == m

MapDelete(m, id) == [i \in DOMAIN m \ {id} |-> m[i]]

EmptyMap == [i \in {} |-> 0]

\* A call record.  op: the operation; track: its track argument (the new
\* track for replaceTrack); id: its producerId argument; p: the Producer or
\* Consumer object an internal step was pushed for.
NewCall(op, t, id, p) ==
  [op |-> op, track |-> t, id |-> id, p |-> p,
   status |-> "pending",   \* pending | resolved | rejected
   error |-> "None",
   phase |-> "none",       \* where the running task is suspended
   trackHandled |-> FALSE, \* Transport.send: trackHandled
   signals |-> 0,          \* times the 'send'/'receive' notification was raised
   comps |-> 0,            \* compensating Handler.stopSending calls issued
   result |-> 0,           \* Producer / Consumer object resolved with
   remoteId |-> NoId,      \* id in the remote parameters the application returned
   endedAtReject |-> FALSE \* the track was ended when the rejection was delivered
  ]

\* An API call rejected by the checks made before anything is enqueued:
\* its operation and arguments, the error, and whether its track was ended
\* when the rejection was delivered.
Outright(op, t, id, err, trs) ==
  [op |-> op, track |-> t, id |-> id, error |-> err,
   endedAtReject |-> IF t = NoTrack THEN FALSE
                     ELSE trs[t].readyState = "ended"]

NoRejection == [op |-> "none", track |-> NoTrack, id |-> NoId,
                error |-> "None", endedAtReject |-> FALSE]

\* The promise of call c rejects with err; trs is the track state at that time.
Rejected(c, err, trs) ==
  [c EXCEPT !.status = "rejected", !.error = err, !.phase = "none",
            !.endedAtReject = IF c.track = NoTrack THEN FALSE
                              ELSE trs[c.track].readyState = "ended"]

Resolved(c, res) ==
  [c EXCEPT !.status = "resolved", !.phase = "none", !.result = res]

\* Methods each Handler class defines.
HasMethod(h, dir, m) ==
  CASE h = "FakeHandler" -> m \in {"send", "stopSending", "replaceTrack"}
    [] h = "Chrome55" /\ dir = "send" ->
         m \in {"send", "stopSending", "replaceTrack", "restartIce",
                "updateIceServers"}
    [] h = "Chrome55" /\ dir = "recv" ->
         m \in {"receive", "stopReceiving", "restartIce", "updateIceServers"}

\* ----------------------------------------------------------------------
\* Producer (pure operators on one Producer object)
\* ----------------------------------------------------------------------
\* A Producer constructor that does not take the id of the remote parameters.
NewProducerNoId(id, t, trs) ==
  [id |-> NoId, track |-> t, closed |-> FALSE, paused |-> ~trs[t].enabled,
   closeEmits |-> 0, transportcloseEmits |-> 0]

\* A constructor that takes every new Producer as not paused.
NewProducerUnpaused(id, t, trs) ==
  [id |-> id, track |-> t, closed |-> FALSE, paused |-> FALSE,
   closeEmits |-> 0, transportcloseEmits |-> 0]

NewProducer(id, t, trs) ==
  [id |-> id, track |-> t, closed |-> FALSE, paused |-> ~trs[t].enabled,
   closeEmits |-> 0, transportcloseEmits |-> 0]

\* Producer.close() without the check of the closed flag.
ProducerCloseNoGuard(pr) ==
  [pr EXCEPT !.closed = TRUE, !.closeEmits = @ + 1]

\* Producer.close(): the Producer afterwards.
ProducerCloseRec(pr) ==
  IF pr.closed THEN pr
  ELSE [pr EXCEPT !.closed = TRUE, !.closeEmits = @ + 1]

\* Producer.transportClosed() done by calling close().
ProducerTransportClosedByClose(pr) == ProducerCloseRec(pr)

\* Producer.transportClosed(): the Producer afterwards.
ProducerTransportClosedRec(pr) ==
  IF pr.closed THEN pr
  ELSE [pr EXCEPT !.closed = TRUE, !.transportcloseEmits = @ + 1]

\* ----------------------------------------------------------------------
\* Device
\* ----------------------------------------------------------------------
\* Router capabilities as far as the Device uses them: the kinds for which
\* router and browser share a codec.  NoCaps: the argument is missing.
RouterCaps == SUBSET Kinds
NoCaps == {"missing"}

\* One load() call: its argument and how it settled.
LoadCall(caps, status, err) == [caps |-> caps, status |-> status, error |-> err]

\* Outcome of a call that answers at once: the error it throws ("None"
\* when it returns) and the value it returns.
DeviceResult(op, err, value) == [op |-> op, error |-> err, value |-> value]

\* The checks of load() with the loaded flag not looked at.
DeviceLoadCheckArgumentOnly(caps) ==
  IF caps = NoCaps THEN "TypeError" ELSE "None"

\* The checks of load().
DeviceLoadCheck(caps) ==
  IF devLoaded THEN "InvalidStateError"
  ELSE IF caps = NoCaps THEN "TypeError"
  ELSE "None"

\* Device.load(caps): rejects at once, or asks the Handler class for the
\* native capabilities of the browser.
DeviceLoad(caps) ==
  /\ devCalls < MaxDeviceCalls
  /\ devCalls' = devCalls + 1
  /\ LET err == DeviceLoadCheck(caps)
     IN devLoads' = Append(devLoads,
          IF err # "None" THEN LoadCall(caps, "rejected", err)
          ELSE LoadCall(caps, "pending", "None"))
  /\ UNCHANGED <<devLoaded, devCaps, devResult, config, transport, peer,
                 simulcastCall>>

\* Handler.getNativeRtpCapabilities() settles for the load() call i: when
\* it resolves (ok) the capabilities are computed and cached and the Device
\* is loaded; when it rejects load() rejects with that error.
DeviceLoadSettles(i, ok) ==
  /\ i \in DOMAIN devLoads
  /\ devLoads[i].status = "pending"
  /\ IF ok
     THEN /\ devLoaded' = TRUE
          /\ devCaps' = devLoads[i].caps
          /\ devLoads' = [devLoads EXCEPT ![i].status = "resolved"]
     ELSE /\ devLoads' = [devLoads EXCEPT ![i].status = "rejected",
                                          ![i].error = "Error"]
          /\ UNCHANGED <<devLoaded, devCaps>>
  /\ UNCHANGED <<devCalls, devResult, config, transport, peer, simulcastCall>>

\* Device.canSend(kind)
DeviceCanSend(kind) ==
  /\ devCalls < MaxDeviceCalls
  /\ devCalls' = devCalls + 1
  /\ devResult' =
       IF ~devLoaded THEN DeviceResult("canSend", "InvalidStateError", FALSE)
       ELSE IF kind \notin Kinds THEN DeviceResult("canSend", "TypeError", FALSE)
       ELSE DeviceResult("canSend", "None", kind \in devCaps)
  /\ UNCHANGED <<devLoaded, devCaps, devLoads, config, transport, peer,
                 simulcastCall>>

\* Device.canReceive(rtpParameters), for parameters of a codec of kind.
DeviceCanReceive(kind) ==
  /\ devCalls < MaxDeviceCalls
  /\ devCalls' = devCalls + 1
  /\ devResult' =
       IF ~devLoaded
       THEN DeviceResult("canReceive", "InvalidStateError", FALSE)
       ELSE DeviceResult("canReceive", "None", kind \in devCaps)
  /\ UNCHANGED <<devLoaded, devCaps, devLoads, config, transport, peer,
                 simulcastCall>>

\* Device.createTransport({ direction: dir }): a Transport bound to the
\* cached capabilities.
DeviceCreateTransport(dir) ==
  /\ devCalls < MaxDeviceCalls
  /\ devCalls' = devCalls + 1
  /\ IF ~devLoaded
     THEN /\ devResult' =
               DeviceResult("createTransport", "InvalidStateError", FALSE)
          /\ UNCHANGED <<direction, canSendByKind>>
     ELSE /\ devResult' = DeviceResult("createTransport", "None", TRUE)
          /\ direction' = dir
          /\ canSendByKind' = [k \in Kinds |-> k \in devCaps]
  /\ UNCHANGED <<devLoaded, devCaps, devLoads, handler, transport, peer,
                 simulcastCall>>

\* ----------------------------------------------------------------------
\* Initial state: Transport constructor
\* ----------------------------------------------------------------------
\* The application's tracks, all live and enabled.
LiveTracks == [t \in Tracks |-> [readyState |-> "live", enabled |-> TRUE]]

\* A Transport as its constructor leaves it.
NewTransport ==
  /\ closed = FALSE
  /\ producers = EmptyMap
  /\ consumers = EmptyMap
  /\ prod = <<>>
  /\ cons = <<>>
  /\ queue = <<>>
  /\ queueClosed = FALSE
  /\ running = 0
  /\ ncalls = 0
  /\ rejected = NoRejection
  /\ calls = <<>>
  /\ started = <<>>
  /\ hcalls = {}
  /\ stream = {}
  /\ transportReady = FALSE
  /\ receiverInfos = {}
  /\ connectionState = "new"
  /\ connects = 0
  /\ handlerCloses = 0
  /\ stateReports = 0
  /\ stateEvents = 0
  /\ lastStateEvent = "none"

\* The second Transport as createTransport() returns it.
NewPeer ==
  /\ peerClosed = FALSE
  /\ peerQueue = <<>>
  /\ peerRunning = 0
  /\ peerCalls = <<>>
  /\ peerProducers = {}
  /\ peerConsumers = {}
  /\ peerProd = EmptyMap
  /\ peerCons = EmptyMap

\* ----------------------------------------------------------------------
\* Simulcast options of send()
\* ----------------------------------------------------------------------
\* JavaScript values: their typeof, whether they are truthy, and for an
\* object its own properties.
NoFields == [f \in {} |-> 0]
Primitive(type, truthy) ==
  [type |-> type, truthy |-> truthy, fields |-> NoFields]
Object(fields) == [type |-> "object", truthy |-> TRUE, fields |-> fields]
Undefined == Primitive("undefined", FALSE)
False == Primitive("boolean", FALSE)
True == Primitive("boolean", TRUE)

\* Values of a property: two numbers and something that is not a number.
FieldNumber(n) == [type |-> "number", n |-> n]
FieldString == [type |-> "string", n |-> 0]
FieldValues == {FieldNumber(1), FieldNumber(2), FieldString}
FieldNames == {"low", "medium", "high", "other"}

\* What an application may pass as simulcast: nothing, null (a falsy value
\* whose typeof is 'object'), a boolean, a number, a string, or an object
\* with any of the properties.
SimulcastOptions ==
  {Undefined, Primitive("object", FALSE), False, True,
   Primitive("number", FALSE), Primitive("number", TRUE),
   Primitive("string", FALSE), Primitive("string", TRUE)}
  \cup {Object(o) : o \in UNION {[D -> FieldValues] : D \in SUBSET FieldNames}}

SIMULCAST_DEFAULT ==
  [low |-> FieldNumber(100000), medium |-> FieldNumber(500000),
   high |-> FieldNumber(1500000)]

\* A value handed over together with the object it is: the module's
\* default, the caller's option, or an object made for this call.
Handed(value, ref) == [value |-> value, ref |-> ref]
NotPassed == Handed(Primitive("none", FALSE), "none")

\* A normalisation that hands the module's default itself to the Handler.
ShareDefault(default) == Handed(Object(default), "default")

\* utils.clone(SIMULCAST_DEFAULT): a new object with the same properties.
CloneDefault(default) == Handed(Object(default), "fresh")

BoolToNumber(b) == IF b THEN 1 ELSE 0

\* The layers of an object option whose value is a number.
NumericLayers(o) ==
  {f \in {"low", "medium", "high"} \cap DOMAIN o : o[f].type = "number"}

\* The first lines of the send task: normalizedSimulcast for the option
\* simulcast and a track of the given kind.  No branch assigns it for a
\* truthy option that is neither true nor an object.
NormalizeSimulcast(simulcast, kind, default) ==
  IF ~simulcast.truthy \/ kind # "video"
  THEN Handed(False, "none")
  ELSE IF simulcast = True
  THEN CloneDefault(default)
  ELSE IF simulcast.type = "object"
  THEN LET o == simulcast.fields
           hasLow == "low" \in NumericLayers(o)
           hasMedium == "medium" \in NumericLayers(o)
           hasHigh == "high" \in NumericLayers(o)
       IN IF BoolToNumber(hasLow) + BoolToNumber(hasMedium)
               + BoolToNumber(hasHigh) > 1
          THEN Handed(Object([f \in NumericLayers(o) |-> o[f]]), "fresh")
          ELSE Handed(False, "none")
  ELSE Handed(Undefined, "none")

\* No send() call has been looked at.
NoSimulcastCall ==
  /\ simOption = Undefined
  /\ simKind = "audio"
  /\ simDefault = SIMULCAST_DEFAULT
  /\ simPassed = NotPassed
  /\ simHeld = NotPassed.value

\* The send task normalises the option and calls Handler.send with it.
SendTaskNormalizes ==
  /\ simPassed = NotPassed
  /\ simPassed' = NormalizeSimulcast(simOption, simKind, simDefault)
  /\ simHeld' = simPassed'.value
  /\ UNCHANGED <<simOption, simKind, simDefault>>
  /\ UNCHANGED <<config, device, peer, transport>>

\* A Handler writes property f of the object it was given.  The Handlers
\* here only read it; another Handler class may write.
HandlerWrites(f, v) ==
  /\ simPassed # NotPassed
  /\ simHeld.type = "object"
  /\ simHeld' = Object(MapSet(simHeld.fields, f, v))
  /\ simDefault' = IF simPassed.ref = "default"
                   THEN MapSet(simDefault, f, v) ELSE simDefault
  /\ simOption' = IF simPassed.ref = "option"
                  THEN Object(MapSet(simOption.fields, f, v)) ELSE simOption
  /\ UNCHANGED <<simKind, simPassed>>
  /\ UNCHANGED <<config, device, peer, transport>>

\* A send() call on a send transport with any option and a track of
\* either kind.
SimulcastInit ==
  /\ direction = "send"
  /\ handler \in Handlers
  /\ canSendByKind = [k \in Kinds |-> TRUE]
  /\ NewTransport
  /\ peerDirection = direction
  /\ NewPeer
  /\ tracks = LiveTracks
  /\ devLoaded = TRUE
  /\ devCaps = Kinds
  /\ devLoads = <<LoadCall(devCaps, "resolved", "None")>>
  /\ devCalls = 2
  /\ devResult = DeviceResult("createTransport", "None", TRUE)
  /\ simOption \in SimulcastOptions
  /\ simKind \in Kinds
  /\ simDefault = SIMULCAST_DEFAULT
  /\ simPassed = NotPassed
  /\ simHeld = NotPassed.value

SimulcastNext ==
  \/ SendTaskNormalizes
  \/ \E f \in FieldNames, v \in FieldValues : HandlerWrites(f, v)

SimulcastSpec == SimulcastInit /\ [][SimulcastNext]_vars

\* A Transport created by a loaded Device.
Init ==
  /\ direction \in Directions
  /\ handler \in Handlers
  /\ canSendByKind \in [Kinds -> BOOLEAN]
  /\ canSendByKind["audio"]
  /\ NewTransport
  /\ peerDirection = direction
  /\ NewPeer
  /\ NoSimulcastCall
  /\ tracks = LiveTracks
  /\ devLoaded = TRUE
  /\ devCaps = {k \in Kinds : canSendByKind[k]}
  /\ devLoads = <<LoadCall(devCaps, "resolved", "None")>>
  /\ devCalls = 2
  /\ devResult = DeviceResult("createTransport", "None", TRUE)

\* A Device as its constructor leaves it.  There is no Transport yet: the
\* Transport variables hold what createTransport() gives a send transport
\* of a Device that cannot send anything.
DeviceInit ==
  /\ handler \in Handlers
  /\ direction = "send"
  /\ canSendByKind = [k \in Kinds |-> FALSE]
  /\ NewTransport
  /\ peerDirection = direction
  /\ NewPeer
  /\ NoSimulcastCall
  /\ tracks = LiveTracks
  /\ devLoaded = FALSE
  /\ devCaps = {}
  /\ devLoads = <<>>
  /\ devCalls = 0
  /\ devResult = DeviceResult("none", "None", FALSE)

\* Kinds the application asks canSend() about.
AskedKinds == Kinds \cup {"chicken"}

DeviceNext ==
  \/ \E caps \in RouterCaps \cup {NoCaps} : DeviceLoad(caps)
  \/ \E i \in DOMAIN devLoads, ok \in BOOLEAN : DeviceLoadSettles(i, ok)
  \/ \E kind \in AskedKinds : DeviceCanSend(kind)
  \/ \E kind \in Kinds : DeviceCanReceive(kind)
  \/ \E dir \in Directions : DeviceCreateTransport(dir)

DeviceSpec == DeviceInit /\ [][DeviceNext]_vars

\* ----------------------------------------------------------------------
\* Transport.send()
\* ----------------------------------------------------------------------
\* The checks send() makes before it enqueues: the error it rejects with,
\* "None" when the call goes on to the CommandQueue.
\* The checks of send() with the direction tested before the track.
SendPreCheckDirectionFirst(t) ==
  IF direction # "send" THEN "UnsupportedError"
  ELSE IF t = NoTrack THEN "TypeError"
  ELSE IF ~canSendByKind[TrackKind(t)] THEN "UnsupportedError"
  ELSE IF tracks[t].readyState = "ended" THEN "InvalidStateError"
  ELSE "None"

SendPreCheck(t) ==
  IF t = NoTrack THEN "TypeError"
  ELSE IF direction # "send" THEN "UnsupportedError"
  ELSE IF ~canSendByKind[TrackKind(t)] THEN "UnsupportedError"
  ELSE IF tracks[t].readyState = "ended" THEN "InvalidStateError"
  ELSE "None"

Send(t) ==
  /\ ncalls < MaxCalls
  /\ ncalls' = ncalls + 1
  /\ LET err == SendPreCheck(t)
         c == NewCall("send", t, NoId, 0)
     IN IF err # "None"
        THEN /\ rejected' = Outright("send", t, NoId, err, tracks)
             /\ UNCHANGED <<tracks, queue, calls>>
        ELSE IF queueClosed
        THEN \* push() on a closed queue rejects; the catch stops the track
             /\ tracks' = StopTrack(tracks, t)
             /\ calls' = Append(calls,
                  Rejected(c, "InvalidStateError", tracks'))
             /\ rejected' = NoRejection /\ UNCHANGED queue
        ELSE /\ calls' = Append(calls, c)
             /\ queue' = Append(queue, Len(calls) + 1)
             /\ rejected' = NoRejection /\ UNCHANGED tracks
  /\ UNCHANGED <<config, device, peer, simulcastCall, notifications, connection, closed,
                 producers, consumers, prod, cons, queueClosed, running,
                 started, hcalls, handlerState>>

\* A catch of the send task that always issues Handler.stopSending.
SendCompensatesAlways(c) == TRUE

\* Whether the catch of the send task issues Handler.stopSending.
SendCompensates(c) == c.trackHandled

\* A listener of '@connect' that passes every request to the application.
ConnectErrbackNever == "None"

\* The listener of '@connect': the error it calls errback with at once,
\* "None" when it raises 'connect' to the application instead.
ConnectErrback == IF closed THEN "InvalidStateError" ELSE "None"

\* The send task k fails with err: its catch (compensation), then the catch
\* chained on push() (track.stop()).  hc and st are the Handler calls in
\* flight and the local stream as Handler.send left them.
FailSendStep(k, err, hc, st) ==
  LET c == calls[k]
      t == c.track
      comp == SendCompensates(c)
      \* SendHandler.stopSending returns a promise and works asynchronously;
      \* FakeHandler.stopSending returns undefined, so .catch() on it throws.
      async == comp /\ handler = "Chrome55"
      finalErr == IF comp /\ handler = "FakeHandler" THEN "TypeError" ELSE err
  IN /\ hcalls' = IF async
                  THEN hc \cup {[ticket |-> k, method |-> "stopSending",
                                 comp |-> TRUE, phase |-> "pc"]}
                  ELSE hc
     /\ stream' = IF async THEN st \ {t} ELSE st
     /\ tracks' = StopTrack(tracks, t)
     /\ calls' = [calls EXCEPT ![k] =
          Rejected([c EXCEPT !.comps = IF comp THEN @ + 1 ELSE @],
                   finalErr, tracks')]
     /\ running' = 0

\* Handler.send resolved: trackHandled is set and 'send' is raised to the
\* application with a callback/errback pair.
EnterSendSignal(k) ==
  /\ calls' = [calls EXCEPT ![k].trackHandled = TRUE,
                            ![k].signals = @ + 1,
                            ![k].phase = "signal"]
  /\ running' = k

\* The CommandQueue starts the send task at the head of the queue.
StartSend ==
  /\ running = 0 /\ queue # <<>>
  /\ LET k == Head(queue)
         t == calls[k].track
     IN /\ calls[k].op = "send"
        /\ queue' = Tail(queue)
        /\ started' = Append(started, k)
        /\ IF handler = "Chrome55"
           THEN IF t \in stream
                THEN \* track already added
                     /\ FailSendStep(k, "DuplicatedError", hcalls, stream)
                     /\ UNCHANGED transportReady
                ELSE /\ stream' = stream \cup {t}
                     /\ hcalls' = hcalls \cup
                          {[ticket |-> k, method |-> "send", comp |-> FALSE,
                            phase |-> "local"]}
                     /\ calls' = [calls EXCEPT ![k].phase = "handler"]
                     /\ running' = k
                     /\ UNCHANGED <<tracks, transportReady>>
           ELSE IF ~transportReady
                THEN \* FakeHandler._setupTransport raises '@localparameters'
                     \* and waits for its callback / errback
                     /\ hcalls' = hcalls \cup
                          {[ticket |-> k, method |-> "send", comp |-> FALSE,
                            phase |-> "setup"]}
                     /\ calls' = [calls EXCEPT ![k].phase = "handler"]
                     /\ running' = k
                     /\ UNCHANGED <<tracks, stream, transportReady>>
                ELSE /\ EnterSendSignal(k)
                     /\ UNCHANGED <<tracks, stream, transportReady, hcalls>>
  /\ rejected' = NoRejection
  /\ UNCHANGED <<config, device, peer, simulcastCall, notifications, connection, ncalls,
                 closed, producers, consumers, prod, cons, queueClosed,
                 receiverInfos>>

\* A step of the Handler.send call in flight for the running send task.
HandlerSendProgress ==
  \E h \in hcalls :
    /\ h.method = "send"
    /\ LET k == h.ticket
           t == calls[k].track
           hc == hcalls \ {h}
           to(ph) == hc \cup {[h EXCEPT !.phase = ph]}
       IN \/ \* setLocalDescription resolved
             /\ h.phase = "local"
             /\ IF transportReady
                THEN /\ hcalls' = to("remote")
                     /\ UNCHANGED <<calls, running, tracks, stream, connects>>
                ELSE IF ConnectErrback # "None"
                THEN \* '@connect' on a closed transport: errback
                     /\ FailSendStep(k, ConnectErrback, hc, stream \ {t})
                     /\ UNCHANGED connects
                ELSE \* 'connect' is raised to the application
                     /\ hcalls' = to("connect")
                     /\ connects' = connects + 1
                     /\ UNCHANGED <<calls, running, tracks, stream>>
             /\ UNCHANGED transportReady
          \/ \* the application accepts 'connect' (Chrome55); the listener
             \* of '@localparameters' calls back (FakeHandler)
             /\ h.phase \in {"connect", "setup"}
             /\ transportReady' = TRUE
             /\ IF h.phase = "connect"
                THEN /\ hcalls' = to("remote")
                     /\ UNCHANGED <<calls, running, tracks, stream>>
                ELSE /\ hcalls' = hc
                     /\ EnterSendSignal(k)
                     /\ UNCHANGED <<tracks, stream>>
             /\ UNCHANGED connects
          \/ \* setRemoteDescription resolved: Handler.send resolves
             /\ h.phase = "remote"
             /\ hcalls' = hc
             /\ EnterSendSignal(k)
             /\ UNCHANGED <<tracks, stream, transportReady, connects>>
          \/ \* a browser call or the transport setup fails: Handler.send rejects
             /\ FailSendStep(k, "Error", hc,
                             IF handler = "Chrome55" THEN stream \ {t} ELSE stream)
             /\ UNCHANGED <<transportReady, connects>>
  /\ rejected' = NoRejection
  /\ UNCHANGED <<config, device, peer, simulcastCall, notifications, connectionState,
                 handlerCloses, ncalls, closed, producers, consumers, prod,
                 cons, queue, queueClosed, started, receiverInfos>>

\* Router ids not yet given to a Producer / Consumer.
FreshProducerIds == RouterIds \ {prod[i].id : i \in DOMAIN prod}

\* The application answers 'send' with the producer remote parameters.
SignalSendCallback(id) ==
  /\ running # 0
  /\ calls[running].op = "send" /\ calls[running].phase = "signal"
  /\ id \in FreshProducerIds
  /\ LET k == running
         p == Len(prod) + 1
     IN /\ prod' = Append(prod, NewProducer(id, calls[k].track, tracks))
        /\ producers' = MapSet(producers, id, p)
        /\ calls' = [calls EXCEPT ![k] = Resolved([@ EXCEPT !.remoteId = id], p)]
  /\ running' = 0
  /\ rejected' = NoRejection
  /\ UNCHANGED <<config, device, peer, simulcastCall, notifications, connection, ncalls,
                 closed, consumers, cons, tracks, queue, queueClosed, started,
                 hcalls, handlerState>>

\* The application answers 'send' with its errback ("Error"), or with a
\* callback carrying no parameters ("TypeError" in the Producer construction).
SignalSendFail(err) ==
  /\ running # 0
  /\ calls[running].op = "send" /\ calls[running].phase = "signal"
  /\ FailSendStep(running, err, hcalls, stream)
  /\ rejected' = NoRejection
  /\ UNCHANGED <<config, device, peer, simulcastCall, notifications, connection, ncalls,
                 closed, producers, consumers, prod, cons, queue, queueClosed,
                 started, transportReady, receiverInfos>>

\* A compensating Handler.stopSending, awaited by nobody, settles.
CompensationSettles ==
  \E h \in hcalls :
    /\ h.comp
    /\ hcalls' = hcalls \ {h}
    /\ rejected' = NoRejection
    /\ UNCHANGED <<config, device, peer, simulcastCall, notifications, connection, ncalls,
                   closed, producers, consumers, prod, cons, tracks, queue,
                   queueClosed, running, calls, started, handlerState>>


\* ----------------------------------------------------------------------
\* Transport.receive()
\* ----------------------------------------------------------------------
\* producerId arguments the application passes (NoId: missing).
RemoteProducerIds == {1}

\* The checks of receive() with the producerId tested before the closed flag.
ReceivePreCheckIdFirst(id) ==
  IF id = NoId THEN "TypeError"
  ELSE IF closed THEN "InvalidStateError"
  ELSE IF direction # "recv" THEN "UnsupportedError"
  ELSE "None"

ReceivePreCheck(id) ==
  IF closed THEN "InvalidStateError"
  ELSE IF id = NoId THEN "TypeError"
  ELSE IF direction # "recv" THEN "UnsupportedError"
  ELSE "None"

\* CommandQueue.push(task) for a call record c that passed its checks.
Push(c) ==
  IF queueClosed
  THEN /\ calls' = Append(calls,
            Rejected(c, "InvalidStateError", tracks))
       /\ UNCHANGED queue
  ELSE /\ calls' = Append(calls, c)
       /\ queue' = Append(queue, Len(calls) + 1)

Receive(id) ==
  /\ ncalls < MaxCalls
  /\ ncalls' = ncalls + 1
  /\ LET err == ReceivePreCheck(id)
         c == NewCall("receive", NoTrack, id, 0)
     IN IF err # "None"
        THEN /\ rejected' = Outright("receive", NoTrack, id, err, tracks)
             /\ UNCHANGED <<queue, calls>>
        ELSE Push(c) /\ rejected' = NoRejection
  /\ UNCHANGED <<config, device, peer, simulcastCall, notifications, connection, closed,
                 producers, consumers, prod, cons, tracks, queueClosed,
                 running, started, hcalls, handlerState>>

\* The receive task starts: 'receive' is raised to the application.
StartReceive ==
  /\ running = 0 /\ queue # <<>>
  /\ LET k == Head(queue)
     IN /\ calls[k].op = "receive"
        /\ queue' = Tail(queue)
        /\ started' = Append(started, k)
        /\ calls' = [calls EXCEPT ![k].signals = @ + 1, ![k].phase = "signal"]
        /\ running' = k
  /\ rejected' = NoRejection
  /\ UNCHANGED <<config, device, peer, simulcastCall, notifications, connection, ncalls,
                 closed, producers, consumers, prod, cons, tracks,
                 queueClosed, hcalls, handlerState>>

\* A failing task that takes every unsettled call down with it.
FailStepRejectsPending(k, err) ==
  /\ calls' = [j \in DOMAIN calls |->
                 IF calls[j].status = "pending"
                 THEN Rejected(calls[j], err, tracks) ELSE calls[j]]
  /\ running' = 0

\* The running task k settles with a rejection that no catch of the
\* Transport handles (receive, restartIce, updateIceServers).
FailStep(k, err) ==
  /\ calls' = [calls EXCEPT ![k] = Rejected(@, err, tracks)]
  /\ running' = 0

\* A receive task that goes to the Handler whatever canReceive() says.
ReceiveCheckSkipped(receivable) == "None"

\* The receive task's check of the consumer remote parameters; receivable
\* is what ortc.canReceive() returns for their rtpParameters.
ReceiveCheck(receivable) ==
  IF ~receivable THEN "UnsupportedError" ELSE "None"

\* The application answers 'receive' with consumer remote parameters whose
\* id is cid; receivable is ortc.canReceive() of their rtpParameters.
SignalReceiveCallback(cid, receivable) ==
  /\ running # 0
  /\ calls[running].op = "receive" /\ calls[running].phase = "signal"
  /\ LET k == running
     IN IF ReceiveCheck(receivable) # "None"
        THEN /\ FailStep(k, ReceiveCheck(receivable))
             /\ UNCHANGED <<hcalls, receiverInfos>>
        ELSE IF ~HasMethod(handler, direction, "receive")
        THEN FailStep(k, "TypeError") /\ UNCHANGED <<hcalls, receiverInfos>>
        ELSE IF cid \in receiverInfos
        THEN FailStep(k, "DuplicatedError") /\ UNCHANGED <<hcalls, receiverInfos>>
        ELSE /\ receiverInfos' = receiverInfos \cup {cid}
             /\ hcalls' = hcalls \cup
                  {[ticket |-> k, method |-> "receive", comp |-> FALSE,
                    phase |-> "remote"]}
             /\ calls' = [calls EXCEPT ![k].phase = "handler",
                                       ![k].remoteId = cid]
             /\ UNCHANGED running
  /\ rejected' = NoRejection
  /\ UNCHANGED <<config, device, peer, simulcastCall, notifications, connection, ncalls,
                 closed, producers, consumers, prod, cons, tracks, queue,
                 queueClosed, started, stream, transportReady>>

\* The application answers 'receive' with its errback ("Error") or with a
\* callback carrying no parameters ("TypeError").
SignalReceiveFail(err) ==
  /\ running # 0
  /\ calls[running].op = "receive" /\ calls[running].phase = "signal"
  /\ FailStep(running, err)
  /\ rejected' = NoRejection
  /\ UNCHANGED <<config, device, peer, simulcastCall, notifications, connection, ncalls,
                 closed, producers, consumers, prod, cons, tracks, queue,
                 queueClosed, started, hcalls, handlerState>>

\* Consumer: closed flag and lifecycle notifications.
NewConsumer(id) ==
  [id |-> id, closed |-> FALSE, closeEmits |-> 0, transportcloseEmits |-> 0]

ConsumerCloseRec(co) ==
  IF co.closed THEN co
  ELSE [co EXCEPT !.closed = TRUE, !.closeEmits = @ + 1]

ConsumerTransportClosedRec(co) ==
  IF co.closed THEN co
  ELSE [co EXCEPT !.closed = TRUE, !.transportcloseEmits = @ + 1]

\* A step of the RecvHandler.receive call in flight.
HandlerReceiveProgress ==
  \E h \in hcalls :
    /\ h.method = "receive"
    /\ LET k == h.ticket
           cid == calls[k].remoteId
           hc == hcalls \ {h}
           to(ph) == hc \cup {[h EXCEPT !.phase = ph]}
       IN \/ \* setRemoteDescription resolved
             /\ h.phase = "remote"
             /\ hcalls' = to("local")
             /\ UNCHANGED <<calls, running, consumers, cons, handlerState,
                            connects>>
          \/ \* setRemoteDescription rejected: the receiver info is removed
             /\ h.phase = "remote"
             /\ hcalls' = hc
             /\ receiverInfos' = receiverInfos \ {cid}
             /\ FailStep(k, "Error")
             /\ UNCHANGED <<consumers, cons, stream, transportReady, connects>>
          \/ \* createAnswer / setLocalDescription resolved: transport setup
             /\ h.phase = "local"
             /\ IF ConnectErrback # "None"
                THEN /\ hcalls' = hc /\ FailStep(k, ConnectErrback)
                     /\ UNCHANGED connects
                ELSE /\ hcalls' = to("connect") /\ UNCHANGED <<calls, running>>
                     /\ connects' = connects + 1
             /\ UNCHANGED <<consumers, cons, handlerState>>
          \/ \* the application accepts 'connect'; the remote track is found
             /\ h.phase = "connect"
             /\ hcalls' = hc
             /\ transportReady' = TRUE
             /\ cons' = Append(cons, NewConsumer(cid))
             /\ consumers' = MapSet(consumers, cid, Len(cons) + 1)
             /\ calls' = [calls EXCEPT ![k] = Resolved(@, Len(cons) + 1)]
             /\ running' = 0
             /\ UNCHANGED <<stream, receiverInfos, connects>>
          \/ \* the application accepts 'connect'; no remote track is found
             /\ h.phase = "connect"
             /\ hcalls' = hc
             /\ transportReady' = TRUE
             /\ FailStep(k, "Error")
             /\ UNCHANGED <<consumers, cons, stream, receiverInfos, connects>>
          \/ \* createAnswer / setLocalDescription or 'connect' fails
             /\ h.phase \in {"local", "connect"}
             /\ hcalls' = hc
             /\ FailStep(k, "Error")
             /\ UNCHANGED <<consumers, cons, handlerState, connects>>
  /\ rejected' = NoRejection
  /\ UNCHANGED <<config, device, peer, simulcastCall, notifications, connectionState,
                 handlerCloses, ncalls, closed, producers, prod, tracks,
                 queue, queueClosed, started>>

\* ----------------------------------------------------------------------
\* Transport.restartIce() / Transport.updateIceServers()
\* ----------------------------------------------------------------------
\* The checks with the argument tested before the closed flag.
IcePreCheckArgumentFirst(present) ==
  IF ~present THEN "TypeError"
  ELSE IF closed THEN "InvalidStateError"
  ELSE "None"

\* The checks of restartIce() / updateIceServers(); present: whether the
\* argument (remoteIceParameters, an iceServers array) is given.
IcePreCheck(present) ==
  IF closed THEN "InvalidStateError"
  ELSE IF ~present THEN "TypeError"
  ELSE "None"

\* restartIce() calling the Handler itself instead of pushing a task.
RestartIceUnqueued(present) ==
  /\ ncalls < MaxCalls
  /\ ncalls' = ncalls + 1
  /\ LET err == IcePreCheck(present)
         c == NewCall("restartIce", NoTrack, NoId, 0)
     IN IF err # "None"
        THEN /\ rejected' = Outright("restartIce", NoTrack, NoId, err, tracks)
             /\ UNCHANGED <<calls, started, hcalls>>
        ELSE /\ calls' = Append(calls, [c EXCEPT !.phase = "handler"])
             /\ started' = Append(started, Len(calls) + 1)
             /\ hcalls' = hcalls \cup
                  {[ticket |-> Len(calls) + 1, method |-> "restartIce",
                    comp |-> FALSE, phase |-> "pc"]}
             /\ rejected' = NoRejection
  /\ UNCHANGED <<config, device, peer, simulcastCall, notifications, connection, closed,
                 producers, consumers, prod, cons, tracks, queue, queueClosed,
                 running, handlerState>>

RestartIce(present) ==
  /\ ncalls < MaxCalls
  /\ ncalls' = ncalls + 1
  /\ LET err == IcePreCheck(present)
         c == NewCall("restartIce", NoTrack, NoId, 0)
     IN IF err # "None"
        THEN /\ rejected' = Outright("restartIce", NoTrack, NoId, err, tracks)
             /\ UNCHANGED <<queue, calls>>
        ELSE Push(c) /\ rejected' = NoRejection
  /\ UNCHANGED <<config, device, peer, simulcastCall, notifications, connection, closed,
                 producers, consumers, prod, cons, tracks, queueClosed,
                 running, started, hcalls, handlerState>>

UpdateIceServers(present) ==
  /\ ncalls < MaxCalls
  /\ ncalls' = ncalls + 1
  /\ LET err == IcePreCheck(present)
         c == NewCall("updateIceServers", NoTrack, NoId, 0)
     IN IF err # "None"
        THEN /\ rejected' = Outright("updateIceServers", NoTrack, NoId, err, tracks)
             /\ UNCHANGED <<queue, calls>>
        ELSE Push(c) /\ rejected' = NoRejection
  /\ UNCHANGED <<config, device, peer, simulcastCall, notifications, connection, closed,
                 producers, consumers, prod, cons, tracks, queueClosed,
                 running, started, hcalls, handlerState>>

\* The restartIce task starts.
StartRestartIce ==
  /\ running = 0 /\ queue # <<>>
  /\ LET k == Head(queue)
     IN /\ calls[k].op = "restartIce"
        /\ queue' = Tail(queue)
        /\ started' = Append(started, k)
        /\ IF ~HasMethod(handler, direction, "restartIce")
           THEN FailStep(k, "TypeError") /\ UNCHANGED hcalls
           ELSE IF ~transportReady
           THEN /\ calls' = [calls EXCEPT ![k] = Resolved(@, 0)]
                /\ UNCHANGED <<running, hcalls>>
           ELSE /\ hcalls' = hcalls \cup
                     {[ticket |-> k, method |-> "restartIce", comp |-> FALSE,
                       phase |-> "pc"]}
                /\ calls' = [calls EXCEPT ![k].phase = "handler"]
                /\ running' = k
  /\ rejected' = NoRejection
  /\ UNCHANGED <<config, device, peer, simulcastCall, notifications, connection, ncalls,
                 closed, producers, consumers, prod, cons, tracks,
                 queueClosed, handlerState>>

\* The updateIceServers task starts; Handler.updateIceServers awaits
\* nothing: setConfiguration() returns (ok) or throws.
StartUpdateIceServers(ok) ==
  /\ running = 0 /\ queue # <<>>
  /\ LET k == Head(queue)
     IN /\ calls[k].op = "updateIceServers"
        /\ queue' = Tail(queue)
        /\ started' = Append(started, k)
        /\ IF ~HasMethod(handler, direction, "updateIceServers")
           THEN FailStep(k, "TypeError")
           ELSE IF ok
           THEN calls' = [calls EXCEPT ![k] = Resolved(@, 0)] /\ UNCHANGED running
           ELSE FailStep(k, "Error")
  /\ rejected' = NoRejection
  /\ UNCHANGED <<config, device, peer, simulcastCall, notifications, connection, ncalls,
                 closed, producers, consumers, prod, cons, tracks,
                 queueClosed, hcalls, handlerState>>


\* ----------------------------------------------------------------------
\* Producer operations and the Transport's listeners on a Producer
\* ----------------------------------------------------------------------
\* Producer.close(); on '@close' the Transport removes the Producer from its
\* map and, unless the transport is closed, pushes a Handler.stopSending task.
ProducerClose(p) ==
  /\ p \in DOMAIN prod
  /\ prod' = [prod EXCEPT ![p] = ProducerCloseRec(@)]
  /\ IF prod'[p].closeEmits > prod[p].closeEmits
     THEN \* _destroyTrack(), then '@close' reaches the Transport
          /\ tracks' = StopTrack(tracks, prod[p].track)
          /\ producers' = MapDelete(producers, prod[p].id)
          /\ IF closed
             THEN UNCHANGED <<calls, queue>>
             ELSE Push(NewCall("stopSending", NoTrack, NoId, p))
     ELSE UNCHANGED <<tracks, producers, calls, queue>>
  /\ rejected' = NoRejection
  /\ UNCHANGED <<config, device, peer, simulcastCall, notifications, connection, ncalls,
                 closed, consumers, cons, queueClosed, running, started,
                 hcalls, handlerState>>

\* Producer.pause() without the check of the closed flag.
ProducerPauseNoGuard(pr) == [pr EXCEPT !.paused = TRUE]

\* Producer.pause(): the Producer's paused flag afterwards.
ProducerPauseRec(pr) ==
  IF pr.closed THEN pr ELSE [pr EXCEPT !.paused = TRUE]

\* Producer.resume(): the Producer's paused flag afterwards.
ProducerResumeRec(pr) ==
  IF pr.closed THEN pr ELSE [pr EXCEPT !.paused = FALSE]

ProducerPause(p) ==
  /\ p \in DOMAIN prod
  /\ prod' = [prod EXCEPT ![p] = ProducerPauseRec(@)]
  /\ tracks' = IF prod[p].closed THEN tracks
               ELSE [tracks EXCEPT ![prod[p].track].enabled = FALSE]
  /\ rejected' = NoRejection
  /\ UNCHANGED <<config, device, peer, simulcastCall, notifications, connection, ncalls,
                 closed, producers, consumers, cons, queue, queueClosed,
                 running, calls, started, hcalls, handlerState>>

ProducerResume(p) ==
  /\ p \in DOMAIN prod
  /\ prod' = [prod EXCEPT ![p] = ProducerResumeRec(@)]
  /\ tracks' = IF prod[p].closed THEN tracks
               ELSE [tracks EXCEPT ![prod[p].track].enabled = TRUE]
  /\ rejected' = NoRejection
  /\ UNCHANGED <<config, device, peer, simulcastCall, notifications, connection, ncalls,
                 closed, producers, consumers, cons, queue, queueClosed,
                 running, calls, started, hcalls, handlerState>>

\* The checks of replaceTrack() without the one of the track's readyState.
ReplaceTrackPreCheckNotEnded(pr, t) ==
  IF pr.closed THEN "InvalidStateError"
  ELSE IF t = NoTrack THEN "TypeError"
  ELSE "None"

\* The checks Producer.replaceTrack() makes before it raises '@replacetrack'.
ReplaceTrackPreCheck(pr, t) ==
  IF pr.closed THEN "InvalidStateError"
  ELSE IF t = NoTrack THEN "TypeError"
  ELSE IF tracks[t].readyState = "ended" THEN "InvalidStateError"
  ELSE "None"

\* Producer.replaceTrack({ track: t }); on '@replacetrack' the Transport
\* pushes a Handler.replaceTrack task.
ProducerReplaceTrack(p, t) ==
  /\ ncalls < MaxCalls
  /\ ncalls' = ncalls + 1
  /\ p \in DOMAIN prod
  /\ LET err == ReplaceTrackPreCheck(prod[p], t)
         c == NewCall("replaceTrack", t, NoId, p)
     IN IF err # "None"
        THEN \* a closed producer stops the given track before rejecting
             /\ tracks' = IF prod[p].closed /\ t # NoTrack
                          THEN StopTrack(tracks, t) ELSE tracks
             /\ rejected' = Outright("replaceTrack", t, NoId, err, tracks')
             /\ UNCHANGED <<queue, calls>>
        ELSE IF queueClosed
        THEN \* push() rejects, errback, the catch stops the given track
             /\ tracks' = StopTrack(tracks, t)
             /\ calls' = Append(calls,
                  Rejected(c, "InvalidStateError", tracks'))
             /\ rejected' = NoRejection /\ UNCHANGED queue
        ELSE /\ Push(c)
             /\ rejected' = NoRejection /\ UNCHANGED tracks
  /\ UNCHANGED <<config, device, peer, simulcastCall, notifications, connection, closed,
                 producers, consumers, prod, cons, queueClosed, running,
                 started, hcalls, handlerState>>

\* A swap that also resumes the Producer.
ProducerSwapTrackResumes(pr, t) == [pr EXCEPT !.track = t, !.paused = FALSE]

\* The Producer after Handler.replaceTrack accepted the new track t:
\* the continuation of replaceTrack() that swaps the track.
ProducerSwapTrackRec(pr, t) == [pr EXCEPT !.track = t]

\* The Handler.replaceTrack task starts.  SendHandler.replaceTrack rejects
\* (not implemented); FakeHandler.replaceTrack resolves at once.
StartReplaceTrack ==
  /\ running = 0 /\ queue # <<>>
  /\ LET k == Head(queue)
         p == calls[k].p
         t == calls[k].track
     IN /\ calls[k].op = "replaceTrack"
        /\ queue' = Tail(queue)
        /\ started' = Append(started, k)
        /\ IF handler = "Chrome55"
           THEN \* the catch of replaceTrack() stops the new track
                /\ tracks' = StopTrack(tracks, t)
                /\ calls' = [calls EXCEPT ![k] =
                               Rejected(@, "UnsupportedError", tracks')]
                /\ UNCHANGED prod
           ELSE \* previous track destroyed, new track set and enabled
                \* according to the paused flag
                /\ prod' = [prod EXCEPT ![p] = ProducerSwapTrackRec(@, t)]
                /\ tracks' = [StopTrack(tracks, prod[p].track)
                                EXCEPT ![t].enabled = ~prod[p].paused]
                /\ calls' = [calls EXCEPT ![k] = Resolved(@, 0)]
  /\ rejected' = NoRejection
  /\ UNCHANGED <<config, device, peer, simulcastCall, notifications, connection, ncalls,
                 closed, producers, consumers, cons, queueClosed, running,
                 hcalls, handlerState>>

\* The Handler.stopSending task pushed on a Producer's '@close' starts; the
\* track is the Producer's track at this time.
StartStopSending ==
  /\ running = 0 /\ queue # <<>>
  /\ LET k == Head(queue)
         t == prod[calls[k].p].track
     IN /\ calls[k].op = "stopSending"
        /\ queue' = Tail(queue)
        /\ started' = Append(started, k)
        /\ IF handler = "Chrome55"
           THEN /\ stream' = stream \ {t}
                /\ hcalls' = hcalls \cup
                     {[ticket |-> k, method |-> "stopSending", comp |-> FALSE,
                       phase |-> "pc"]}
                /\ calls' = [calls EXCEPT ![k].phase = "handler"]
                /\ running' = k
           ELSE \* FakeHandler.stopSending returns at once
                /\ calls' = [calls EXCEPT ![k] = Resolved(@, 0)]
                /\ UNCHANGED <<stream, hcalls, running>>
  /\ rejected' = NoRejection
  /\ UNCHANGED <<config, device, peer, simulcastCall, notifications, connection, ncalls,
                 closed, producers, consumers, prod, cons, tracks,
                 queueClosed, transportReady, receiverInfos>>

\* ----------------------------------------------------------------------
\* Consumer operations and the Transport's listener on a Consumer
\* ----------------------------------------------------------------------
ConsumerClose(c) ==
  /\ c \in DOMAIN cons
  /\ cons' = [cons EXCEPT ![c] = ConsumerCloseRec(@)]
  /\ IF cons'[c].closeEmits > cons[c].closeEmits
     THEN /\ consumers' = MapDelete(consumers, cons[c].id)
          /\ IF closed
             THEN UNCHANGED <<calls, queue>>
             ELSE Push(NewCall("stopReceiving", NoTrack, cons[c].id, c))
     ELSE UNCHANGED <<consumers, calls, queue>>
  /\ rejected' = NoRejection
  /\ UNCHANGED <<config, device, peer, simulcastCall, notifications, connection, ncalls,
                 closed, producers, prod, tracks, queueClosed, running,
                 started, hcalls, handlerState>>

\* The Handler.stopReceiving task pushed on a Consumer's '@close' starts.
StartStopReceiving ==
  /\ running = 0 /\ queue # <<>>
  /\ LET k == Head(queue)
         id == calls[k].id
     IN /\ calls[k].op = "stopReceiving"
        /\ queue' = Tail(queue)
        /\ started' = Append(started, k)
        /\ IF ~HasMethod(handler, direction, "stopReceiving")
           THEN FailStep(k, "TypeError") /\ UNCHANGED <<hcalls, receiverInfos>>
           ELSE IF id \notin receiverInfos
           THEN FailStep(k, "Error") /\ UNCHANGED <<hcalls, receiverInfos>>
           ELSE /\ receiverInfos' = receiverInfos \ {id}
                /\ hcalls' = hcalls \cup
                     {[ticket |-> k, method |-> "stopReceiving", comp |-> FALSE,
                       phase |-> "pc"]}
                /\ calls' = [calls EXCEPT ![k].phase = "handler"]
                /\ running' = k
  /\ rejected' = NoRejection
  /\ UNCHANGED <<config, device, peer, simulcastCall, notifications, connection, ncalls,
                 closed, producers, consumers, prod, cons, tracks,
                 queueClosed, stream, transportReady>>

\* A Handler call of the running task that has one asynchronous stretch
\* (restartIce, stopSending, stopReceiving) settles; ok: it resolves.
HandlerCallSettles(ok) ==
  \E h \in hcalls :
    /\ ~h.comp
    /\ h.method \in {"restartIce", "stopSending", "stopReceiving"}
    /\ hcalls' = hcalls \ {h}
    /\ IF ok
       THEN /\ calls' = [calls EXCEPT ![h.ticket] = Resolved(@, 0)]
            /\ running' = 0
       ELSE FailStep(h.ticket, "Error")
    /\ rejected' = NoRejection
    /\ UNCHANGED <<config, device, peer, simulcastCall, notifications, connection, ncalls,
                   closed, producers, consumers, prod, cons, tracks, queue,
                   queueClosed, started, handlerState>>

\* ----------------------------------------------------------------------
\* Transport.close()
\* ----------------------------------------------------------------------
\* Tracks stopped when the tasks still waiting in a closed queue are
\* rejected: the track of a send, the new track of a replaceTrack.
QueuedTracks ==
  {calls[k].track : k \in {i \in Range(queue) :
                             calls[i].op \in {"send", "replaceTrack"}}}

\* CommandQueue.close() that drops the waiting tasks without settling them.
DropQueued(trs) == calls

\* CommandQueue.close(): every task still waiting is rejected with
\* InvalidStateError; the running task is left alone.  trs is the track
\* state when the rejections are delivered.
RejectQueued(trs) ==
  [k \in DOMAIN calls |->
     IF k \in Range(queue)
     THEN Rejected(calls[k], "InvalidStateError", trs)
     ELSE calls[k]]

\* Transport.close() on a transport that is not closed: the queue and the
\* Handler are closed, every registered Producer and Consumer is told
\* transportClosed(), both maps are cleared.
CloseOpen ==
  /\ closed' = TRUE
  /\ queueClosed' = TRUE
  /\ queue' = <<>>
  /\ handlerCloses' = handlerCloses + 1
  /\ prod' = [p \in DOMAIN prod |->
                IF p \in Range(producers)
                THEN ProducerTransportClosedRec(prod[p]) ELSE prod[p]]
  /\ cons' = [c \in DOMAIN cons |->
                IF c \in Range(consumers)
                THEN ConsumerTransportClosedRec(cons[c]) ELSE cons[c]]
  /\ producers' = EmptyMap
  /\ consumers' = EmptyMap
  /\ tracks' = StopTracks(tracks,
        {prod[p].track : p \in {q \in Range(producers) : ~prod[q].closed}}
        \cup QueuedTracks)
  /\ calls' = RejectQueued(tracks')

\* Transport.close() without the check of the closed flag.
CloseUnguarded ==
  /\ CloseOpen
  /\ rejected' = NoRejection
  /\ UNCHANGED <<config, device, peer, simulcastCall, notifications, connectionState,
                 connects, ncalls, running, started, hcalls, handlerState>>

\* Transport.close() that sets the connection state itself.
CloseSetsConnectionState ==
  /\ IF closed
     THEN UNCHANGED <<closed, queueClosed, queue, calls, tracks, prod, cons,
                      producers, consumers, handlerCloses, connectionState>>
     ELSE CloseOpen /\ connectionState' = "closed"
  /\ rejected' = NoRejection
  /\ UNCHANGED <<config, device, peer, simulcastCall, notifications, connects, ncalls,
                 running, started, hcalls, handlerState>>

\* A close() that closes every Transport of the Device.
CloseClosesPeer ==
  /\ IF closed
     THEN UNCHANGED <<closed, queueClosed, queue, calls, tracks, prod, cons,
                      producers, consumers, handlerCloses>>
     ELSE CloseOpen
  /\ peerClosed' = TRUE
  /\ rejected' = NoRejection
  /\ UNCHANGED <<config, device, simulcastCall, notifications, peerDirection,
                 peerQueue,
                 peerRunning, peerCalls, peerProducers, peerConsumers,
                 peerProd, peerCons, connectionState, connects, ncalls,
                 running, started, hcalls, handlerState>>

Close ==
  /\ IF closed
     THEN UNCHANGED <<closed, queueClosed, queue, calls, tracks, prod, cons,
                      producers, consumers, handlerCloses>>
     ELSE CloseOpen
  /\ rejected' = NoRejection
  /\ UNCHANGED <<config, device, peer, simulcastCall, notifications, connectionState,
                 connects, ncalls, running, started, hcalls, handlerState>>

\* ----------------------------------------------------------------------
\* Handler notifications of the connection state
\* ----------------------------------------------------------------------
\* Values a Handler passes with '@connectionstatechange'.
ConnectionStates ==
  {"connecting", "connected", "failed", "disconnected", "closed"}

\* Values of RTCPeerConnection.iceConnectionState.
IceConnectionStates ==
  {"new", "checking", "connected", "completed", "failed", "disconnected",
   "closed"}

\* The value a Chrome55 Handler passes with '@connectionstatechange' when
\* 'iceconnectionstatechange' fires in ICE state ice; "none" when it emits
\* nothing.
IceToConnectionState(ice) ==
  CASE ice = "checking" -> "connecting"
    [] ice \in {"connected", "completed"} -> "connected"
    [] ice = "failed" -> "failed"
    [] ice = "disconnected" -> "disconnected"
    [] ice = "closed" -> "closed"
    [] OTHER -> "none"

\* A listener that raises 'connectionstatechange' for every report made
\* while the Transport is open.
StateChangeNotifiesRepeats(s) == ~closed

\* Whether the listener of '@connectionstatechange' raises
\* 'connectionstatechange' to the application for a report of s.
StateChangeNotifies(s) == s # connectionState /\ ~closed

\* The RTCPeerConnection of a Chrome55 Handler fires
\* 'iceconnectionstatechange' and the Handler emits '@connectionstatechange'
\* with s; the Transport's listener stores s.  The ICE state of a peer
\* connection is 'closed' once close() was called on it and not before;
\* whether the browser fires the event then is up to the browser.
\* FakeHandler never emits the notification.
HandlerConnectionStateChange(s) ==
  /\ handler = "Chrome55"
  /\ s \in ConnectionStates
  /\ (s = "closed") <=> (handlerCloses > 0)
  /\ connectionState' = s
  /\ stateReports < MaxStateReports
  /\ stateReports' = stateReports + 1
  /\ IF StateChangeNotifies(s)
     THEN /\ stateEvents' = stateEvents + 1
          /\ lastStateEvent' = s
     ELSE UNCHANGED <<stateEvents, lastStateEvent>>
  /\ rejected' = NoRejection
  /\ UNCHANGED <<config, device, peer, simulcastCall, connects, handlerCloses,
                 ncalls, closed, producers, consumers, prod, cons, tracks,
                 queue, queueClosed, running, calls, started, hcalls,
                 handlerState>>

\* The RTCPeerConnection of a Chrome55 Handler fires
\* 'iceconnectionstatechange' in ICE state ice.
IceConnectionStateChange(ice) ==
  HandlerConnectionStateChange(IceToConnectionState(ice))

Next ==
  \/ \E t \in Tracks \cup {NoTrack} : Send(t)
  \/ StartSend
  \/ HandlerSendProgress
  \/ \E id \in RouterIds : SignalSendCallback(id)
  \/ \E err \in {"Error", "TypeError"} : SignalSendFail(err)
  \/ CompensationSettles
  \/ \E id \in RemoteProducerIds \cup {NoId} : Receive(id)
  \/ StartReceive
  \/ \E cid \in RouterIds, receivable \in BOOLEAN :
       SignalReceiveCallback(cid, receivable)
  \/ \E err \in {"Error", "TypeError"} : SignalReceiveFail(err)
  \/ HandlerReceiveProgress
  \/ \E present \in BOOLEAN : RestartIce(present)
  \/ \E present \in BOOLEAN : UpdateIceServers(present)
  \/ StartRestartIce
  \/ \E ok \in BOOLEAN : StartUpdateIceServers(ok)
  \/ \E p \in DOMAIN prod : ProducerClose(p)
  \/ \E p \in DOMAIN prod : ProducerPause(p)
  \/ \E p \in DOMAIN prod : ProducerResume(p)
  \/ \E p \in DOMAIN prod, t \in Tracks \cup {NoTrack} : ProducerReplaceTrack(p, t)
  \/ StartReplaceTrack
  \/ StartStopSending
  \/ \E c \in DOMAIN cons : ConsumerClose(c)
  \/ StartStopReceiving
  \/ \E ok \in BOOLEAN : HandlerCallSettles(ok)
  \/ Close

Spec == Init /\ [][Next]_vars

\* The same Transport when the last of the application's tracks has ended
\* before the application hands it to the library.
EndedTrackInit ==
  /\ direction \in Directions
  /\ handler \in Handlers
  /\ canSendByKind \in [Kinds -> BOOLEAN]
  /\ canSendByKind["audio"]
  /\ NewTransport
  /\ peerDirection = direction
  /\ NewPeer
  /\ NoSimulcastCall
  /\ tracks = [LiveTracks EXCEPT ![NTracks].readyState = "ended"]
  /\ devLoaded = TRUE
  /\ devCaps = {k \in Kinds : canSendByKind[k]}
  /\ devLoads = <<LoadCall(devCaps, "resolved", "None")>>
  /\ devCalls = 2
  /\ devResult = DeviceResult("createTransport", "None", TRUE)

EndedTrackSpec == EndedTrackInit /\ [][Next]_vars

\* Transport.getStats(): it enqueues nothing and changes no object; it
\* rejects at once on a closed transport, and with a Handler that does not
\* define getTransportStats (FakeHandler) the call throws, which is
\* turned into a rejection.  Otherwise the promise of the browser's
\* getStats() is returned.
GetStats ==
  /\ rejected' = IF closed
                 THEN Outright("getStats", NoTrack, NoId, "InvalidStateError",
                               tracks)
                 ELSE IF handler = "FakeHandler"
                 THEN Outright("getStats", NoTrack, NoId, "TypeError", tracks)
                 ELSE NoRejection
  /\ UNCHANGED objects

\* The operations together with getStats() and the Handler's notifications
\* of the connection state.  No operation reads the connection state, and
\* only the listener of '@connectionstatechange' writes it.
ConnectionNext ==
  \/ Next
  \/ GetStats
  \/ \E ice \in IceConnectionStates : IceConnectionStateChange(ice)

ConnectionSpec == Init /\ [][ConnectionNext]_vars

\* The steps the library, the Handler and the application's signaling
\* callbacks take on their own once they can: the CommandQueue starts the
\* task at its head, a Handler call settles, the application answers a
\* 'send' / 'receive' / '@localparameters' notification.
Progress ==
  \/ StartSend
  \/ HandlerSendProgress
  \/ \E id \in RouterIds : SignalSendCallback(id)
  \/ \E err \in {"Error", "TypeError"} : SignalSendFail(err)
  \/ CompensationSettles
  \/ StartReceive
  \/ \E cid \in RouterIds, receivable \in BOOLEAN :
       SignalReceiveCallback(cid, receivable)
  \/ \E err \in {"Error", "TypeError"} : SignalReceiveFail(err)
  \/ HandlerReceiveProgress
  \/ StartRestartIce
  \/ \E ok \in BOOLEAN : StartUpdateIceServers(ok)
  \/ StartReplaceTrack
  \/ StartStopSending
  \/ StartStopReceiving
  \/ \E ok \in BOOLEAN : HandlerCallSettles(ok)

\* The Transport when every Handler call and every signaling callback
\* eventually settles and the event loop keeps running.
FairSpec == Init /\ [][Next]_vars /\ WF_vars(Progress)

\* ----------------------------------------------------------------------
\* Two Transports of one Device
\* ----------------------------------------------------------------------
\* The second Transport runs the same code on its own fields, its own
\* CommandQueue and its own Handler instance.  The two share the Device's
\* capabilities, which no Transport writes, and the application's tracks.
\* Of a task of the second Transport the model keeps when it waits, when it
\* is in flight and how it settles.

\* Everything of the first Transport but the tracks.
firstTransport == <<closed, producers, consumers, prod, cons, queue,
                    queueClosed, running, ncalls, calls, started, hcalls,
                    stream, transportReady, receiverInfos, connectionState,
                    connects, handlerCloses, stateReports, stateEvents, lastStateEvent>>

PeerCall(op, t) == [op |-> op, track |-> t, status |-> "pending"]

\* The checks of send() on the second Transport.
PeerSendPreCheck(t) ==
  IF t = NoTrack THEN "TypeError"
  ELSE IF peerDirection # "send" THEN "UnsupportedError"
  ELSE IF ~canSendByKind[TrackKind(t)] THEN "UnsupportedError"
  ELSE IF tracks[t].readyState = "ended" THEN "InvalidStateError"
  ELSE "None"

\* The checks of receive() on the second Transport, given a producer id.
PeerReceivePreCheck ==
  IF peerClosed THEN "InvalidStateError"
  ELSE IF peerDirection # "recv" THEN "UnsupportedError"
  ELSE "None"

\* send({ track: t }) on the second Transport that passes the checks: the
\* task is pushed; a closed queue rejects it and the catch stops the track.
PeerSend(t) ==
  /\ Len(peerCalls) < MaxPeerCalls
  /\ PeerSendPreCheck(t) = "None"
  /\ IF peerClosed
     THEN /\ peerCalls' = Append(peerCalls,
               [PeerCall("send", t) EXCEPT !.status = "rejected"])
          /\ tracks' = StopTrack(tracks, t)
          /\ UNCHANGED peerQueue
     ELSE /\ peerCalls' = Append(peerCalls, PeerCall("send", t))
          /\ peerQueue' = Append(peerQueue, Len(peerCalls) + 1)
          /\ UNCHANGED tracks
  /\ rejected' = NoRejection
  /\ UNCHANGED <<config, device, simulcastCall, firstTransport, peerDirection,
                 peerClosed, peerRunning, peerProducers, peerConsumers,
                 peerProd, peerCons>>

\* receive() on the second Transport that passes the checks.
PeerReceive ==
  /\ Len(peerCalls) < MaxPeerCalls
  /\ PeerReceivePreCheck = "None"
  /\ peerCalls' = Append(peerCalls, PeerCall("receive", NoTrack))
  /\ peerQueue' = Append(peerQueue, Len(peerCalls) + 1)
  /\ rejected' = NoRejection
  /\ UNCHANGED <<config, device, simulcastCall, firstTransport, tracks,
                 peerDirection, peerClosed, peerRunning, peerProducers,
                 peerConsumers, peerProd, peerCons>>

\* The second Transport's CommandQueue starts the task at its head: the
\* task calls its Handler and then waits for the application's callback.
PeerStart ==
  /\ peerRunning = 0 /\ peerQueue # <<>>
  /\ peerRunning' = Head(peerQueue)
  /\ peerQueue' = Tail(peerQueue)
  /\ rejected' = NoRejection
  /\ UNCHANGED <<config, device, simulcastCall, firstTransport, tracks,
                 peerDirection, peerClosed, peerCalls, peerProducers,
                 peerConsumers, peerProd, peerCons>>

\* The running task of the second Transport settles.  When everything went
\* well the Producer / Consumer is created and registered; when the Handler
\* or the application failed the call is rejected, and for a send the catch
\* chained on push() stops the track.
PeerSettles(ok) ==
  /\ peerRunning # 0
  /\ LET k == peerRunning
         c == peerCalls[k]
     IN /\ peerCalls' = [peerCalls EXCEPT ![k].status =
                           IF ok THEN "resolved" ELSE "rejected"]
        /\ IF ok /\ c.op = "send"
           THEN /\ peerProd' = MapSet(peerProd, k,
                                     [track |-> c.track, closed |-> FALSE])
                /\ peerProducers' = peerProducers \cup {k}
           ELSE UNCHANGED <<peerProd, peerProducers>>
        /\ IF ok /\ c.op = "receive"
           THEN /\ peerCons' = MapSet(peerCons, k, [closed |-> FALSE])
                /\ peerConsumers' = peerConsumers \cup {k}
           ELSE UNCHANGED <<peerCons, peerConsumers>>
        /\ tracks' = IF ~ok /\ c.op = "send"
                     THEN StopTrack(tracks, c.track) ELSE tracks
  /\ peerRunning' = 0
  /\ rejected' = NoRejection
  /\ UNCHANGED <<config, device, simulcastCall, firstTransport, peerDirection,
                 peerClosed, peerQueue>>

\* close() on the second Transport.
PeerClose ==
  /\ IF peerClosed
     THEN UNCHANGED <<peerClosed, peerQueue, peerCalls, peerProducers,
                      peerConsumers, peerProd, peerCons, tracks>>
     ELSE /\ peerClosed' = TRUE
          /\ peerQueue' = <<>>
          /\ peerCalls' = [k \in DOMAIN peerCalls |->
                             IF k \in Range(peerQueue)
                             THEN [peerCalls[k] EXCEPT !.status = "rejected"]
                             ELSE peerCalls[k]]
          /\ peerProd' = [k \in DOMAIN peerProd |->
                            IF k \in peerProducers
                            THEN [peerProd[k] EXCEPT !.closed = TRUE]
                            ELSE peerProd[k]]
          /\ peerCons' = [k \in DOMAIN peerCons |->
                            IF k \in peerConsumers
                            THEN [peerCons[k] EXCEPT !.closed = TRUE]
                            ELSE peerCons[k]]
          /\ peerProducers' = {}
          /\ peerConsumers' = {}
          /\ tracks' = StopTracks(tracks,
                {peerProd[k].track :
                   k \in {q \in peerProducers : ~peerProd[q].closed}}
                \cup {peerCalls[k].track :
                        k \in {q \in Range(peerQueue) :
                                 peerCalls[q].op = "send"}})
  /\ rejected' = NoRejection
  /\ UNCHANGED <<config, device, simulcastCall, firstTransport, peerDirection,
                 peerRunning>>

PeerNext ==
  \/ \E t \in Tracks : PeerSend(t)
  \/ PeerReceive
  \/ PeerStart
  \/ \E ok \in BOOLEAN : PeerSettles(ok)
  \/ PeerClose

\* A Device that has created two Transports, of any directions.
PairInit ==
  /\ direction \in Directions
  /\ handler \in Handlers
  /\ canSendByKind \in [Kinds -> BOOLEAN]
  /\ canSendByKind["audio"]
  /\ NewTransport
  /\ peerDirection \in Directions
  /\ NewPeer
  /\ NoSimulcastCall
  /\ tracks = LiveTracks
  /\ devLoaded = TRUE
  /\ devCaps = {k \in Kinds : canSendByKind[k]}
  /\ devLoads = <<LoadCall(devCaps, "resolved", "None")>>
  /\ devCalls = 3
  /\ devResult = DeviceResult("createTransport", "None", TRUE)

PairNext ==
  \/ Next
  \/ PeerNext

PairSpec == PairInit /\ [][PairNext]_vars


\* ======================================================================
\* Properties
\* ======================================================================
MutatingOps == {"send", "receive", "restartIce", "updateIceServers"}

\* Positions a call can take in calls: the application's calls and one
\* stopSending / stopReceiving task for each object they created.
CallIds == 1..(2 * MaxCalls)

\* C1: for one Transport no two Handler negotiation calls (send, receive,
\* restartIce, updateIceServers, replaceTrack, stopSending, stopReceiving,
\* the compensating stopSending of a failed send() included) are in flight
\* at the same time.
C1_NoHandlerOverlap == Cardinality(hcalls) <= 1

\* C2: the queued steps start in the order their calls were made (tickets
\* are given in call order), and a step starts only after every step
\* started before it has settled.
C2_StartOrder ==
  /\ \A i, j \in DOMAIN started : i < j => started[i] < started[j]
  /\ \A i \in DOMAIN started :
       i < Len(started) => calls[started[i]].status # "pending"

\* Two mutating calls were started one after the other; the first one was
\* rejected and the second is running.
C2_Witness ==
  /\ Len(started) >= 2
  /\ calls[started[1]].op \in MutatingOps
  /\ calls[started[2]].op \in MutatingOps
  /\ calls[started[1]].status = "rejected"
  /\ running = started[2]
  /\ hcalls # {}


\* What holds of the notifications of one Producer / Consumer at any time:
\* 'transportclose' at most once and only on a closed one, and never both
\* 'transportclose' and '@close'.
C3_Notified(o) ==
  /\ o.transportcloseEmits <= 1
  /\ o.transportcloseEmits + o.closeEmits <= 1
  /\ o.transportcloseEmits = 1 => o.closed

\* What Transport.close() does to one Producer / Consumer o, o2 being the
\* same object afterwards.
C3_ClosedBy(o, o2) ==
  IF o.closed
  THEN o2.transportcloseEmits = 0 /\ o2.closeEmits = o.closeEmits
  ELSE o2.closed /\ o2.transportcloseEmits = 1 /\ o2.closeEmits = 0

\* C3: Transport.close() leaves every Producer / Consumer that was open
\* closed and notified with 'transportclose' exactly once and never with
\* '@close'; one the application had closed before gets no 'transportclose'.
C3_TransportCloseNotifies ==
  /\ [](/\ \A p \in DOMAIN prod : C3_Notified(prod[p])
        /\ \A c \in DOMAIN cons : C3_Notified(cons[c]))
  /\ [][/\ (~closed /\ closed') =>
             /\ \A p \in DOMAIN prod : C3_ClosedBy(prod[p], prod'[p])
             /\ \A c \in DOMAIN cons : C3_ClosedBy(cons[c], cons'[c])
        /\ \A p \in DOMAIN prod : prod[p].closed => prod'[p].closed
        /\ \A c \in DOMAIN cons : cons[c].closed => cons'[c].closed]_vars

\* The transport was closed with one Producer open and one already closed
\* by the application.
C3_Witness ==
  /\ closed
  /\ \E p, q \in DOMAIN prod :
       /\ prod[p].transportcloseEmits = 1
       /\ prod[q].closeEmits = 1 /\ prod[q].transportcloseEmits = 0

\* C4: '@close' is emitted at most once per Producer, exactly once when
\* close() is what closes it, and close() on a closed Producer changes
\* no object of the library.
C4_CloseIdempotent ==
  /\ [](\A p \in DOMAIN prod : prod[p].closeEmits <= 1)
  /\ [][\A p \in DOMAIN prod :
          /\ prod'[p].closeEmits >= prod[p].closeEmits
          /\ ProducerClose(p) =>
               IF prod[p].closed THEN UNCHANGED objects
               ELSE prod'[p].closed /\ prod'[p].closeEmits = 1]_vars

\* A Producer closed by close() on an open transport, and another closed by
\* the transport.
C4_Witness ==
  \E p \in DOMAIN prod :
    prod[p].closed /\ prod[p].closeEmits = 1 /\ ~closed

\* C5: once a Producer is closed, its closed flag, its track and its paused
\* flag never change.
C5_ClosedProducerImmutable ==
  [][\A p \in DOMAIN prod :
       prod[p].closed =>
         /\ prod'[p].closed
         /\ prod'[p].track = prod[p].track
         /\ prod'[p].paused = prod[p].paused]_vars

\* C6: send() with a missing track, on a transport whose direction is not
\* 'send', for a kind that cannot be sent, or with an ended track is
\* rejected before anything is enqueued, with TypeError, UnsupportedError,
\* UnsupportedError, InvalidStateError in this precedence, and changes
\* neither the producer map nor the queue nor the Handler.
C6_SendRejections ==
  [][\A t \in Tracks \cup {NoTrack} :
       Send(t) =>
         LET missing == t = NoTrack
             wrongDirection == direction # "send"
             cannotSend == ~missing /\ ~canSendByKind[TrackKind(t)]
             ended == ~missing /\ tracks[t].readyState = "ended"
         IN (missing \/ wrongDirection \/ cannotSend \/ ended) =>
              /\ rejected'.op = "send"
              /\ rejected'.track = t
              /\ rejected'.error =
                   (IF missing THEN "TypeError"
                    ELSE IF wrongDirection \/ cannotSend THEN "UnsupportedError"
                    ELSE "InvalidStateError")
              /\ UNCHANGED <<producers, prod, queue, running, calls, started,
                             hcalls, handlerState>>]_vars

\* send() of an ended track was rejected with InvalidStateError on a
\* transport that can send its kind.
C6_Witness ==
  /\ rejected.op = "send"
  /\ rejected.error = "InvalidStateError"
  /\ direction = "send"
  /\ canSendByKind[TrackKind(rejected.track)]

\* C7: whenever send() rejects, its track has been stopped by the time the
\* rejection is delivered.
C7_TrackStoppedOnReject ==
  /\ (rejected.op = "send" /\ rejected.track # NoTrack) => rejected.endedAtReject
  /\ \A k \in DOMAIN calls :
       (calls[k].op = "send" /\ calls[k].status = "rejected")
         => calls[k].endedAtReject

\* C8: a send task issues the compensating Handler.stopSending exactly when
\* it fails after Handler.send() resolved: never when Handler.send()
\* rejected, when the task did not start, or when the task succeeded.
C8_CompensationIff ==
  \A k \in DOMAIN calls :
    calls[k].op = "send" =>
      /\ calls[k].comps <= 1
      /\ calls[k].comps = 1 <=>
           (calls[k].status = "rejected" /\ calls[k].trackHandled)

\* A send task failed after Handler.send() resolved and compensated, and
\* another was rejected without Handler.send() resolving.
C8_Witness ==
  /\ \E k \in DOMAIN calls : calls[k].op = "send" /\ calls[k].comps = 1
  /\ \E k \in DOMAIN calls :
       /\ calls[k].op = "send" /\ calls[k].status = "rejected"
       /\ ~calls[k].trackHandled

\* C9: when send() resolves, 'send' was raised once for the call, after
\* Handler.send() resolved, and the result is an open Producer with the id
\* the application returned and the kind of the track, registered in the
\* producer map under that id.
C9_SendResolves ==
  [][\A k \in DOMAIN calls :
       (/\ calls[k].op = "send"
        /\ calls[k].status = "pending"
        /\ calls'[k].status = "resolved") =>
         LET p == calls'[k].result
             id == calls'[k].remoteId
         IN /\ calls[k].signals = 1
            /\ calls[k].trackHandled
            /\ p \in DOMAIN prod'
            /\ ~prod'[p].closed
            /\ id \in RouterIds
            /\ prod'[p].id = id
            /\ TrackKind(prod'[p].track) = TrackKind(calls[k].track)
            /\ id \in DOMAIN producers'
            /\ producers'[id] = p]_vars

\* A send() resolved with a Producer that is open and registered.
C9_Witness ==
  \E k \in DOMAIN calls :
    /\ calls[k].op = "send" /\ calls[k].status = "resolved"
    /\ calls[k].remoteId \in DOMAIN producers
    /\ ~prod[calls[k].result].closed

\* C10: receive() on a closed transport, without producerId, or on a
\* transport whose direction is not 'recv' is rejected before anything is
\* enqueued, with InvalidStateError, TypeError, UnsupportedError in this
\* precedence; 'receive' is not raised and the Handler is not called.
C10_ReceiveRejections ==
  [][\A id \in RemoteProducerIds \cup {NoId} :
       Receive(id) =>
         ((closed \/ id = NoId \/ direction # "recv") =>
            /\ rejected'.op = "receive"
            /\ rejected'.id = id
            /\ rejected'.error =
                 (IF closed THEN "InvalidStateError"
                  ELSE IF id = NoId THEN "TypeError"
                  ELSE "UnsupportedError")
            /\ UNCHANGED <<consumers, cons, queue, running, calls, started,
                           hcalls, handlerState>>)]_vars

\* receive() without producerId on a closed transport was rejected with
\* InvalidStateError.
C10_Witness ==
  /\ closed
  /\ rejected.op = "receive"
  /\ rejected.id = NoId
  /\ rejected.error = "InvalidStateError"

\* C11: when the parameters the application returns for 'receive' are not
\* receivable, the receive() call rejects with UnsupportedError in that very
\* step, Handler.receive is not invoked for it (no Handler call starts, no
\* receiver is registered in the Handler) and no Consumer is created or
\* registered; a receive() rejected with UnsupportedError never reached the
\* Handler.
C11_NotReceivable ==
  /\ [](\A k \in DOMAIN calls :
         (calls[k].op = "receive" /\ calls[k].error = "UnsupportedError") =>
           /\ calls[k].status = "rejected"
           /\ calls[k].remoteId = NoId
           /\ calls[k].result = 0)
  /\ [][\A cid \in RouterIds :
          SignalReceiveCallback(cid, FALSE) =>
            /\ calls'[running].status = "rejected"
            /\ calls'[running].error = "UnsupportedError"
            /\ UNCHANGED <<hcalls, receiverInfos, consumers, cons>>]_vars

\* A receive() whose 'receive' notification was answered and which was
\* rejected for parameters that cannot be received.
C11_Witness ==
  \E k \in DOMAIN calls :
    /\ calls[k].op = "receive" /\ calls[k].signals = 1
    /\ calls[k].status = "rejected" /\ calls[k].error = "UnsupportedError"

\* What C12 requires of a step that is the call op (restartIce or
\* updateIceServers) with or without its argument.
C12_Step(op, present) ==
  LET err == IF closed THEN "InvalidStateError"
             ELSE IF ~present THEN "TypeError" ELSE "None"
  IN IF err # "None"
     THEN /\ rejected'.op = op /\ rejected'.error = err
          /\ UNCHANGED <<queue, calls, running, started, hcalls, handlerState>>
     ELSE /\ rejected' = NoRejection
          /\ Len(calls') = Len(calls) + 1
          /\ SubSeq(calls', 1, Len(calls)) = calls
          /\ calls'[Len(calls')].op = op
          /\ calls'[Len(calls')].status = "pending"
          /\ queue' = Append(queue, Len(calls'))
          /\ UNCHANGED <<running, started, hcalls, handlerState>>

\* C12: restartIce() and updateIceServers() reject outright, with nothing
\* enqueued and no Handler call, with InvalidStateError on a closed
\* transport (checked first) and with TypeError when the argument is
\* missing; otherwise exactly one step of that operation is enqueued.
C12_IceRejections ==
  [][\A present \in BOOLEAN :
       /\ RestartIce(present) => C12_Step("restartIce", present)
       /\ UpdateIceServers(present) =>
            C12_Step("updateIceServers", present)]_vars

\* updateIceServers() rejected on a closed transport after a restartIce()
\* was enqueued and ran.
C12_Witness ==
  /\ closed
  /\ rejected.op = "updateIceServers" /\ rejected.error = "InvalidStateError"
  /\ \E k \in DOMAIN calls :
       calls[k].op = "restartIce" /\ calls[k].status = "resolved"

\* C13: close() on a closed transport changes no object of the library; the
\* Handler is closed once, by the first close(); that close() leaves both
\* maps empty, enqueues nothing, starts no Handler call, and the Producers
\* and Consumers it closes emit no '@close' (the notification upon which
\* the Transport would ask the Handler to stop sending / receiving).
C13_CloseOnce ==
  /\ [](handlerCloses <= 1 /\ (closed <=> handlerCloses = 1))
  /\ [][Close =>
          IF closed
          THEN UNCHANGED objects
          ELSE /\ closed' /\ handlerCloses' = 1
               /\ producers' = EmptyMap /\ consumers' = EmptyMap
               /\ queue' = <<>> /\ Len(calls') = Len(calls)
               /\ UNCHANGED <<hcalls, running, started>>
               /\ \A p \in DOMAIN prod :
                    prod'[p].closeEmits = prod[p].closeEmits
               /\ \A c \in DOMAIN cons :
                    cons'[c].closeEmits = cons[c].closeEmits]_vars

\* A closed transport whose close() closed a registered Producer, with no
\* Handler.stopSending step ever pushed.
C13_Witness ==
  /\ closed /\ handlerCloses = 1
  /\ \E p \in DOMAIN prod : prod[p].transportcloseEmits = 1
  /\ \A k \in DOMAIN calls : calls[k].op # "stopSending"

\* The record of the step pushed last is a pending op step for object o,
\* appended to the queue.
C14_Pushed(op, o) ==
  /\ Len(calls') = Len(calls) + 1
  /\ SubSeq(calls', 1, Len(calls)) = calls
  /\ calls'[Len(calls')].op = op
  /\ calls'[Len(calls')].p = o
  /\ calls'[Len(calls')].status = "pending"
  /\ queue' = Append(queue, Len(calls'))

\* C14: close() on an open Producer (Consumer) removes it from the
\* Transport's map in that step and pushes one Handler.stopSending
\* (stopReceiving) step if and only if the transport is not closed; when
\* such a step fails, no Producer, Consumer, track or map changes, nothing is
\* reported to the application, and the queue is free for the next step.
C14_CloseTeardown ==
  [][/\ \A p \in DOMAIN prod :
          (ProducerClose(p) /\ ~prod[p].closed) =>
            /\ prod[p].id \notin DOMAIN producers'
            /\ IF closed THEN UNCHANGED <<calls, queue>>
               ELSE C14_Pushed("stopSending", p)
     /\ \A c \in DOMAIN cons :
          (ConsumerClose(c) /\ ~cons[c].closed) =>
            /\ cons[c].id \notin DOMAIN consumers'
            /\ IF closed THEN UNCHANGED <<calls, queue>>
               ELSE C14_Pushed("stopReceiving", c)
     /\ \A k \in DOMAIN calls :
          ( /\ calls[k].op \in {"stopSending", "stopReceiving"}
            /\ running = k
            /\ calls'[k].status = "rejected" ) =>
            /\ running' = 0
            /\ rejected' = NoRejection
            /\ UNCHANGED <<prod, cons, producers, consumers, tracks>>
            /\ \A j \in DOMAIN calls \ {k} : calls'[j] = calls[j]]_vars

\* On an open transport a Producer was closed by the application and its
\* Handler.stopSending step failed.
C14_Witness ==
  /\ ~closed
  /\ \E k \in DOMAIN calls :
       /\ calls[k].op = "stopSending" /\ calls[k].status = "rejected"
       /\ prod[calls[k].p].closeEmits = 1
       /\ k \in Range(started)

\* C15: 'connect' is raised to the application at most once in the life of
\* a transport.  Read in the code's favour, a setup the application refused
\* may be asked again, so what is stated here is the least the claim says:
\* once a transport setup was accepted (the Handler is ready), 'connect' is
\* never raised again.
C15_ConnectOnce ==
  [][connects' > connects => ~transportReady]_vars

\* C16: once close() was called the connection state is 'closed', and a
\* connection state of 'closed' never changes again.
C16_ClosedTerminal ==
  /\ [](closed => connectionState = "closed")
  /\ [][connectionState = "closed" => connectionState' = "closed"]_vars

\* C17: the connection state is 'new' at first; every operation of the
\* application (send, receive, restartIce, updateIceServers, getStats,
\* close, the Producer and Consumer operations) and every step of their
\* tasks leaves it unchanged; it changes only in a step that is the
\* listener of the Handler's '@connectionstatechange'.
C17_OnlyNotifications ==
  /\ connectionState = "new"
  /\ [][(Next \/ GetStats) => UNCHANGED connectionState]_vars
  /\ [][connectionState' # connectionState =>
          \E s \in ConnectionStates : HandlerConnectionStateChange(s)]_vars

\* The Handler reported 'connected'; a call then resolved and the transport
\* was closed, and the connection state is still 'connected'.
C17_Witness ==
  /\ connectionState = "connected" /\ closed
  /\ \E k \in DOMAIN calls : calls[k].status = "resolved"

\* The load() call made in this step was rejected at once with err.
C18_LoadRejected(err) ==
  /\ devLoads'[Len(devLoads')].status = "rejected"
  /\ devLoads'[Len(devLoads')].error = err

\* C18: on a Device that is not loaded canSend(), canReceive() and
\* createTransport() fail with InvalidStateError and load() without
\* capabilities fails with TypeError, all leaving it not loaded; a loaded
\* Device stays loaded, and every load() called on it fails with
\* InvalidStateError and leaves the cached capabilities as they are.
C18_DeviceOneShot ==
  [][/\ \A kind \in AskedKinds :
          (DeviceCanSend(kind) /\ ~devLoaded) =>
            /\ devResult'.error = "InvalidStateError"
            /\ UNCHANGED <<devLoaded, devCaps>>
     /\ \A kind \in Kinds :
          (DeviceCanReceive(kind) /\ ~devLoaded) =>
            /\ devResult'.error = "InvalidStateError"
            /\ UNCHANGED <<devLoaded, devCaps>>
     /\ \A dir \in Directions :
          (DeviceCreateTransport(dir) /\ ~devLoaded) =>
            /\ devResult'.error = "InvalidStateError"
            /\ UNCHANGED <<devLoaded, devCaps, config>>
     /\ (DeviceLoad(NoCaps) /\ ~devLoaded) =>
          /\ C18_LoadRejected("TypeError")
          /\ UNCHANGED <<devLoaded, devCaps>>
     /\ \A caps \in RouterCaps \cup {NoCaps} :
          (DeviceLoad(caps) /\ devLoaded) =>
            /\ C18_LoadRejected("InvalidStateError")
            /\ UNCHANGED <<devLoaded, devCaps>>
     /\ devLoaded => devLoaded']_vars

\* load() without capabilities failed, the next load() succeeded, and the
\* one after it was refused.
C18_Witness ==
  /\ Len(devLoads) = 3
  /\ devLoads[1].status = "rejected" /\ devLoads[1].error = "TypeError"
  /\ devLoads[2].status = "resolved" /\ devCaps = devLoads[2].caps
  /\ devLoads[3].status = "rejected"
  /\ devLoads[3].error = "InvalidStateError"

\* What a replaceTrack({ track: t }) step on Producer p must be when the
\* Producer is closed or t is absent or ended: an outright rejection,
\* with errEnded when it is for an ended track, with nothing pushed, no
\* Handler call started, and the Producer as it was.
C19_Step(p, t, errEnded) ==
  LET err == IF prod[p].closed THEN "InvalidStateError"
             ELSE IF t = NoTrack THEN "TypeError"
             ELSE IF tracks[t].readyState = "ended" THEN errEnded
             ELSE "None"
  IN err # "None" =>
       /\ rejected'.op = "replaceTrack" /\ rejected'.error = err
       /\ UNCHANGED <<queue, calls, running, started, hcalls, handlerState>>
       /\ prod'[p].track = prod[p].track
       /\ prod'[p].paused = prod[p].paused

\* C19 as claimed: replaceTrack() on a closed Producer rejects with
\* InvalidStateError, with an absent or an ended track it rejects with a
\* validation error (TypeError); the Handler is not asked and the
\* Producer's track and paused flag are unchanged.
C19_AsClaimed ==
  [][\A p \in DOMAIN prod, t \in Tracks \cup {NoTrack} :
       ProducerReplaceTrack(p, t) => C19_Step(p, t, "TypeError")]_vars

\* C19: replaceTrack() on a closed Producer rejects with InvalidStateError,
\* with an absent track with TypeError, with an ended track with
\* InvalidStateError; the Handler is not asked and the Producer's track and
\* paused flag are unchanged.
C19_ReplaceTrackRejections ==
  [][\A p \in DOMAIN prod, t \in Tracks \cup {NoTrack} :
       ProducerReplaceTrack(p, t) =>
         C19_Step(p, t, "InvalidStateError")]_vars

\* replaceTrack() with an ended track was rejected by the only Producer,
\* which is open.
C19_Witness ==
  /\ Len(prod) = 1 /\ ~prod[1].closed
  /\ rejected.op = "replaceTrack" /\ rejected.track # NoTrack
  /\ rejected.error = "InvalidStateError"
  /\ tracks[rejected.track].readyState = "ended"

\* C20: in a step in which a replaceTrack() request is rejected by the
\* Handler or by the queue (the step of Transport.close(), which closes the
\* Producers itself, set aside), the Producer is as before (same track, same
\* paused and closed flags), the track it owns is as before (not stopped by
\* the failure), and the new track is stopped unless the error is a
\* DuplicatedError, in which case it is left alone.
C20_ReplaceTrackFailure ==
  [][\A k \in DOMAIN calls' :
       ( /\ calls'[k].op = "replaceTrack"
         /\ calls'[k].status = "rejected"
         /\ (k \in DOMAIN calls => calls[k].status = "pending")
         /\ closed' = closed ) =>
         LET p == calls'[k].p
             t == calls'[k].track
         IN /\ prod'[p] = prod[p]
            /\ tracks'[prod[p].track] = tracks[prod[p].track]
            /\ IF calls'[k].error = "DuplicatedError"
               THEN tracks'[t] = tracks[t]
               ELSE tracks'[t].readyState = "ended"]_vars

\* C21: pause() (resume()) on an open Producer sets paused to TRUE (FALSE)
\* and the enabled flag of its track to FALSE (TRUE), and changes nothing
\* when the Producer is already so; on a closed Producer it changes nothing
\* at all.  Neither reports an error.
C21_PauseResume ==
  [][\A p \in DOMAIN prod :
       LET t == prod[p].track
       IN /\ ProducerPause(p) =>
               /\ rejected' = NoRejection
               /\ IF prod[p].closed \/ (prod[p].paused /\ ~tracks[t].enabled)
                  THEN UNCHANGED objects
                  ELSE prod'[p].paused /\ ~tracks'[t].enabled
          /\ ProducerResume(p) =>
               /\ rejected' = NoRejection
               /\ IF prod[p].closed \/ (~prod[p].paused /\ tracks[t].enabled)
                  THEN UNCHANGED objects
                  ELSE ~prod'[p].paused /\ tracks'[t].enabled]_vars

\* An open Producer that pause() has paused.
C21_Witness ==
  \E p \in DOMAIN prod :
    /\ ~prod[p].closed /\ prod[p].paused /\ ~tracks[prod[p].track].enabled

\* C22: when every Handler call and every signaling callback eventually
\* settles, every promise returned by send(), receive(), restartIce() and
\* updateIceServers() eventually resolves or rejects, also when close() is
\* called while it is queued or running.  (A call made after close() is
\* rejected in the step that makes it.)
C22_Settles ==
  \A i \in CallIds :
    (i \in DOMAIN calls /\ calls[i].op \in MutatingOps
       /\ calls[i].status = "pending")
    ~> (i \in DOMAIN calls /\ calls[i].status # "pending")

\* A call that was waiting in the queue when close() was called and is
\* rejected, next to one that was running then and has settled since.
C22_Witness ==
  /\ closed
  /\ \E i, j \in DOMAIN calls :
       /\ i # j
       /\ {calls[i].op, calls[j].op} \subseteq MutatingOps
       /\ i \in Range(started) /\ calls[i].status # "pending"
       /\ j \notin Range(started) /\ calls[j].status = "rejected"
       /\ calls[j].error = "InvalidStateError"

\* C23: a step in which a started task fails rejects that call only: every
\* other call record, settled or not, is unchanged and the tasks behind it
\* stay in the queue in their order; and on a transport that stays open a
\* task waiting behind a failed one is started and settles.
C23_FailedStep(k) ==
  /\ k \in DOMAIN calls
  /\ calls[k].status = "pending"
  /\ calls'[k].status = "rejected"
  /\ closed' = closed

C23_FailureIsolated ==
  /\ [][\A k \in CallIds :
          C23_FailedStep(k) =>
            /\ \A j \in DOMAIN calls \ {k} : calls'[j] = calls[j]
            /\ queue' = SelectSeq(queue, LAMBDA x : x # k)
            /\ queueClosed' = queueClosed]_vars
  /\ \A j \in CallIds :
       (/\ j \in Range(queue)
        /\ \E i \in Range(started) : calls[i].status = "rejected")
       ~> (\/ closed
           \/ j \in Range(started) /\ calls[j].status # "pending")

\* On an open transport a task failed and the task queued behind it was
\* started afterwards and resolved.
C23_Witness ==
  /\ ~closed
  /\ \E a, b \in 1..Len(started) :
       /\ a < b
       /\ calls[started[a]].status = "rejected"
       /\ calls[started[b]].status = "resolved"
       /\ calls[started[b]].op \in MutatingOps

\* C24: two Transports created by the same Device are independent: no step
\* of one of them (close(), a step that fails, a step in flight, any other)
\* changes the other's closed flag, its queue, its maps or the closed flags
\* of its Producers and Consumers; and steps of the two Transports can be
\* in flight at the same time.
C24_ClosedFlags(m) == [k \in DOMAIN m |-> m[k].closed]

C24_Independent ==
  [][/\ Next =>
          /\ UNCHANGED <<peerClosed, peerQueue, peerProducers, peerConsumers>>
          /\ C24_ClosedFlags(peerProd') = C24_ClosedFlags(peerProd)
          /\ C24_ClosedFlags(peerCons') = C24_ClosedFlags(peerCons)
     /\ PeerNext =>
          /\ UNCHANGED <<closed, queueClosed, queue, producers, consumers>>
          /\ C24_ClosedFlags(prod') = C24_ClosedFlags(prod)
          /\ C24_ClosedFlags(cons') = C24_ClosedFlags(cons)]_vars

\* One Transport was closed while its step was in flight; the other is open
\* and has a step of its own in flight at the same time.
C24_Witness ==
  /\ closed /\ running # 0
  /\ ~peerClosed /\ peerRunning # 0

\* C25: in the step in which a replaceTrack request resolves, which is the
\* step its Handler task was started and accepted, the Producer takes the
\* new track, the track it had is stopped, its paused flag stays as it was
\* and the new track is enabled exactly when the Producer is not paused.
\* A Producer's track changes in no other step, and a Producer always has
\* exactly one track.
C25_Swapped(k) ==
  /\ k \in DOMAIN calls
  /\ calls[k].op = "replaceTrack"
  /\ calls[k].status = "pending"
  /\ calls'[k].status = "resolved"

C25_AtomicSwap ==
  /\ [](\A p \in DOMAIN prod : prod[p].track \in Tracks)
  /\ [][/\ \A k \in CallIds :
            C25_Swapped(k) =>
              LET p == calls[k].p
                  t == calls[k].track
              IN /\ queue # <<>> /\ k = Head(queue)
                 /\ k \in Range(started') \ Range(started)
                 /\ prod'[p].track = t
                 /\ tracks'[prod[p].track].readyState = "ended"
                 /\ prod'[p].paused = prod[p].paused
                 /\ tracks'[t].enabled = ~prod[p].paused
        /\ \A p \in DOMAIN prod :
            prod'[p].track # prod[p].track =>
              \E k \in CallIds :
                /\ C25_Swapped(k)
                /\ calls[k].p = p
                /\ calls[k].track = prod'[p].track]_vars

\* A paused Producer whose track was replaced by another one: it has the
\* new track, disabled, and the track it had before is ended.
C25_Witness ==
  \E k \in DOMAIN calls :
    /\ calls[k].op = "replaceTrack"
    /\ calls[k].status = "resolved"
    /\ LET pr == prod[calls[k].p]
       IN /\ pr.track = calls[k].track
          /\ pr.paused /\ ~pr.closed
          /\ ~tracks[pr.track].enabled
          /\ tracks[pr.track].readyState = "live"
          /\ \E t \in Tracks \ {pr.track} : tracks[t].readyState = "ended"

\* C26: what the send task hands to Handler.send as simulcast: false for a
\* track that is not video or a falsy option; for true on a video track a
\* new object with the properties of the default; for an object on a video
\* track a new object with exactly those of low, medium and high that are
\* numbers when at least two are, and false otherwise.  Neither the
\* caller's option nor the default is ever changed, whatever the Handler
\* does with the object it was given.
C26_Expected ==
  LET o == simOption.fields
      numeric == {f \in {"low", "medium", "high"} :
                    f \in DOMAIN o /\ o[f].type = "number"}
  IN IF simKind # "video" \/ ~simOption.truthy
     THEN {Handed(False, "none")}
     ELSE IF simOption.type = "boolean"
     THEN {Handed(Object(SIMULCAST_DEFAULT), "fresh")}
     ELSE IF simOption.type = "object"
     THEN IF Cardinality(numeric) >= 2
          THEN {Handed(Object([f \in numeric |-> o[f]]), "fresh")}
          ELSE {Handed(False, "none")}
     ELSE {Handed(v, "none") : v \in SimulcastOptions}

C26_SimulcastNormalized ==
  /\ [](simDefault = SIMULCAST_DEFAULT)
  /\ [](simPassed # NotPassed => simPassed \in C26_Expected)
  /\ [][simOption' = simOption]_vars

\* The option was an object on a video track with two numeric layers, a
\* third that is not a number and another property; the Handler got an
\* object with the two layers and has written to it since.
C26_Witness ==
  /\ simKind = "video"
  /\ simOption.type = "object"
  /\ DOMAIN simOption.fields = FieldNames
  /\ simOption.fields["high"].type = "string"
  /\ simPassed.ref = "fresh"
  /\ DOMAIN simPassed.value.fields = {"low", "medium"}
  /\ simHeld # simPassed.value

\* C27: when the send task fails after the Handler accepted the track, so
\* that the compensating Handler.stopSending is issued, the send() call is
\* rejected with the error that made the task fail, whatever the Handler.
C27_OriginalError ==
  [][\A err \in {"Error", "TypeError"} :
       SignalSendFail(err) =>
         /\ calls'[running].status = "rejected"
         /\ calls'[running].comps = calls[running].comps + 1
         /\ calls'[running].error = err]_vars

\* C28: on a closed Transport both maps are empty and every Producer and
\* Consumer the Transport created is closed.
C28_ClosedTransportEmpty ==
  closed =>
    /\ producers = EmptyMap
    /\ consumers = EmptyMap
    /\ \A p \in DOMAIN prod : prod[p].closed
    /\ \A c \in DOMAIN cons : cons[c].closed

\* C29: a step in which a send() call of an open Transport is rejected
\* leaves the track of every registered, open Producer as it was: not
\* stopped, its enabled flag unchanged.
C29_SendRejected(k) ==
  /\ k \in DOMAIN calls
  /\ calls[k].op = "send"
  /\ calls[k].status = "pending"
  /\ calls'[k].status = "rejected"

C29_FailedSendSparesProducers ==
  [][(~closed' /\ \E k \in CallIds : C29_SendRejected(k)) =>
       \A p \in Range(producers) :
         ~prod[p].closed =>
           tracks'[prod[p].track] = tracks[prod[p].track]]_vars

\* C30: on a closed Transport no step invokes a negotiation method of the
\* Handler: no queued task is started, no Handler call that was not in
\* flight before appears, and no compensating stopSending is issued.
C30_NoHandlerCallAfterClose ==
  [][closed =>
       /\ started' = started
       /\ \A h \in hcalls' :
            \E g \in hcalls :
              g.ticket = h.ticket /\ g.method = h.method /\ g.comp = h.comp
       /\ \A k \in DOMAIN calls : calls'[k].comps = calls[k].comps]_vars

\* C31: when a RecvHandler.receive call in flight is rejected, the id it
\* was called with is not registered in the Handler's receiver infos
\* afterwards, whichever of its steps failed.
C31_ReceiveRejected(h) ==
  /\ h.method = "receive"
  /\ calls[h.ticket].status = "pending"
  /\ calls'[h.ticket].status = "rejected"

C31_FailedReceiveUnregisters ==
  [][\A h \in hcalls :
       C31_ReceiveRejected(h) =>
         calls[h.ticket].remoteId \notin receiverInfos']_vars

\* C32: an open Producer's paused flag is the negation of its track's
\* enabled flag: when it is constructed, after each of its own pause(),
\* resume() and track swaps, and after every other step that does not
\* write the enabled flag of its track (a failed replaceTrack() among
\* them).  With the Chrome55 Handler, where no track ever belongs to two
\* Producers, this holds in every state.
C32_Consistent(pr, trs) == pr.paused = ~trs[pr.track].enabled

C32_OwnStep(p) ==
  \/ ProducerPause(p)
  \/ ProducerResume(p)
  \/ prod'[p].track # prod[p].track

C32_PausedMirrorsEnabled ==
  /\ [](handler = "Chrome55" =>
          \A p \in DOMAIN prod :
            ~prod[p].closed => C32_Consistent(prod[p], tracks))
  /\ [][/\ \A p \in DOMAIN prod' \ DOMAIN prod :
            C32_Consistent(prod'[p], tracks')
        /\ \A p \in DOMAIN prod :
            ~prod'[p].closed =>
              /\ C32_OwnStep(p) => C32_Consistent(prod'[p], tracks')
              /\ (/\ C32_Consistent(prod[p], tracks)
                  /\ tracks'[prod[p].track].enabled
                       = tracks[prod[p].track].enabled
                  /\ ~C32_OwnStep(p))
                 => C32_Consistent(prod'[p], tracks')]_vars

\* Two open Producers of one track, which is disabled: the track was
\* paused through one of them, and the other is paused as well.
C32_Witness ==
  \E p, q \in DOMAIN prod :
    /\ p # q
    /\ prod[p].track = prod[q].track
    /\ ~prod[p].closed /\ prod[p].paused
    /\ ~prod[q].closed /\ prod[q].paused
    /\ ~tracks[prod[q].track].enabled


\* C33: the application's 'connectionstatechange' notification is raised
\* only in a step where the Handler reports a state different from the
\* transport's current connectionState; a report of the current state
\* (ICE 'connected' followed by 'completed', both mapped to 'connected')
\* raises none; the notification carries the new current connectionState;
\* and none is raised once the transport is closed.
C33_Raised == stateEvents' # stateEvents

C33_NotifiedOnChange ==
  /\ [](stateEvents > 0 => lastStateEvent \in ConnectionStates)
  /\ [][C33_Raised =>
          /\ \E ice \in IceConnectionStates :
               /\ IceConnectionStateChange(ice)
               /\ IceToConnectionState(ice) # connectionState
          /\ stateEvents' = stateEvents + 1
          /\ lastStateEvent' = connectionState'
          /\ connectionState' # connectionState
          /\ ~closed]_vars
  /\ [][\A ice \in IceConnectionStates :
          (/\ IceConnectionStateChange(ice)
           /\ IceToConnectionState(ice) = connectionState) =>
            UNCHANGED <<connectionState, stateEvents, lastStateEvent>>]_vars
  /\ [][closed => ~C33_Raised]_vars

\* The Handler reported twice on an open transport, both times 'connected';
\* the application was notified once, with 'connected'.
C33_Witness ==
  /\ ~closed
  /\ stateReports = 2
  /\ stateEvents = 1
  /\ lastStateEvent = "connected"
  /\ connectionState = "connected"


\* C34: a '@connect' request of the Handler on a closed Transport (made by
\* a negotiation step that was in flight when the transport was closed) is
\* failed with InvalidStateError and 'connect' is not raised to the
\* application; 'connect' is raised only while the transport is open.
\* A Handler call of Chrome55 is about to request the transport setup.
C34_AtSetup(h) ==
  /\ handler = "Chrome55"
  /\ h.phase = "local"
  /\ h.method = "send" => ~transportReady

C34_ConnectOnlyWhileOpen ==
  /\ [][connects' # connects => ~closed /\ ~closed']_vars
  /\ [][\A h \in hcalls :
          (closed /\ C34_AtSetup(h) /\ h \notin hcalls') =>
            /\ connects' = connects
            /\ transportReady' = transportReady
            /\ \A g \in hcalls' : g.ticket = h.ticket => g.method = "stopSending"
            /\ calls[h.ticket].status = "pending" =>
                 /\ calls'[h.ticket].status = "rejected"
                 /\ calls'[h.ticket].error \in {"InvalidStateError", "Error"}]_vars

\* A send or receive task went to the Chrome55 Handler; the transport was
\* closed while the negotiation was in flight, the Handler then asked for
\* the transport setup, and the call is rejected with InvalidStateError
\* without 'connect' ever having been raised.
C34_Witness ==
  /\ handler = "Chrome55"
  /\ closed
  /\ connects = 0
  /\ ~transportReady
  /\ \E k \in Range(started) :
       /\ calls[k].op \in {"send", "receive"}
       /\ calls[k].op = "receive" => calls[k].remoteId # NoId
       /\ calls[k].status = "rejected"
       /\ calls[k].error = "InvalidStateError"

====
